---- MODULE Spec2Model ----
(***************************************************************************)
(* A model of jolly-okurb's bot core (internal/bot/bot.go): the readiness  *)
(* state guarded by mu, the OnReady / Initialize / Shutdown lifecycle, the *)
(* live event filters, the ReplaceReaction primitive, and the backfill:    *)
(* ProcessHistoricalMessages, ProcessMessageReactions and                  *)
(* findTargetUsersWithReaction.                                            *)
(*                                                                         *)
(* Go strings whose content the code inspects (emoji names, message        *)
(* content, emoji API strings) are sequences of code points; a code point  *)
(* is a one-element string, and the code points outside ASCII are written  *)
(* by their number ("U+1F480" is the skull glyph).  Identifiers the code   *)
(* only compares for equality (channel, user, message IDs, channel names)  *)
(* are plain strings, "" being Go's empty string.                          *)
(***************************************************************************)
EXTENDS Integers, Sequences, FiniteSets, TLC

VARIABLES
    channelID,   \* Bot.channelID
    ready,       \* Bot.ready
    cancel,      \* Bot.cancel: 0 is nil, n > 0 the cancel func of context n
    mu,          \* Bot.mu: 0 when no writer holds it, else the OnReady task holding Lock
    cancelled,   \* the contexts whose cancel func has been called; 0 in it is a call
                 \* of the nil cancel func, which panics
    nctx,        \* how many contexts context.WithCancel has created
    rd,          \* the OnReady invocations, by task
    bf,          \* the ProcessHistoricalMessages goroutines, by the OnReady task that started them
    lv,          \* the dispatch worker running OnReactionAdd / OnMessageCreate
    sd,          \* the Shutdown call in progress
    fin,         \* input of the function under test (function specifications) and
                 \* the data the Session serves
    fout         \* its result or, for a function that calls the Session, the call
                 \* in progress

vars == <<channelID, ready, cancel, mu, cancelled, nctx, rd, bf, lv, sd, fin, fout>>

(***************************************************************************)
(* Bounds                                                                  *)
(***************************************************************************)
MaxReady == 2       \* Ready events delivered by the gateway
MaxChannels == 3    \* channels in a guild's channel list (FindChannelByName)
MaxReactors == 250  \* users who reacted to one message with one emoji
MaxFetches == 2     \* ChannelMessages calls one backfill goroutine makes
MaxPieces == 2      \* pieces a message content is made of (IsSkullOnlyMessage)
MaxEnvLen == 3      \* code points in the value of DISCORD_TARGET_USER_IDS
MaxPages == 6       \* pages of a history without reactions (progress log)

(***************************************************************************)
(* strings                                                                 *)
(***************************************************************************)
Skull == "U+1F480"        \* the skull glyph
Crossbones == "U+2620"    \* skull and crossbones
VS16 == "U+FE0F"          \* variation selector 16, the emoji presentation of U+2620
ThumbsUp == "U+1F44D"

\* strings.ToLower on one code point: the ASCII letters; the other code points
\* the model uses have no lower case
UpperCase == <<"A", "B", "C", "D", "E", "F", "G", "H", "I", "J", "K", "L", "M",
               "N", "O", "P", "Q", "R", "S", "T", "U", "V", "W", "X", "Y", "Z">>

LowerCase == <<"a", "b", "c", "d", "e", "f", "g", "h", "i", "j", "k", "l", "m",
               "n", "o", "p", "q", "r", "s", "t", "u", "v", "w", "x", "y", "z">>

LowerRune(c) ==
    IF \E i \in 1..Len(UpperCase) : UpperCase[i] = c
    THEN LowerCase[CHOOSE i \in 1..Len(UpperCase) : UpperCase[i] = c]
    ELSE c

ToLower(s) == [i \in 1..Len(s) |-> LowerRune(s[i])]

HasPrefixAt(s, sub, i) ==
    /\ i + Len(sub) - 1 <= Len(s)
    /\ \A k \in 1..Len(sub) : s[i + k - 1] = sub[k]

\* strings.Index: the 0-based index of the first occurrence of sub in s, or -1
Index(s, sub) ==
    LET hits == {i \in 1..(Len(s) + 1) : HasPrefixAt(s, sub, i)}
    IN  IF hits = {} THEN -1
        ELSE (CHOOSE i \in hits : \A j \in hits : i <= j) - 1

Contains(s, sub) == Index(s, sub) >= 0

\* s[from:] with a 0-based offset
SliceFrom(s, from) == SubSeq(s, from + 1, Len(s))

\* s[:to] with a 0-based exclusive end
SliceTo(s, to) == SubSeq(s, 1, to)

\* strings.ReplaceAll(s, old, ""): the non-overlapping occurrences of old, left to right
RECURSIVE ReplaceAllEmpty(_, _)
ReplaceAllEmpty(s, old) ==
    LET i == Index(s, old)
    IN  IF i < 0 THEN s
        ELSE SliceTo(s, i) \o ReplaceAllEmpty(SliceFrom(s, i + Len(old)), old)

\* strings.Split(s, ":")
RECURSIVE Split(_, _)
Split(s, sep) ==
    LET i == Index(s, sep)
    IN  IF i < 0 THEN <<s>>
        ELSE <<SliceTo(s, i)>> \o Split(SliceFrom(s, i + Len(sep)), sep)

(***************************************************************************)
(* configuration (config.Config, read-only to the bot)                     *)
(***************************************************************************)
JollySkullName == <<"j", "o", "l", "l", "y", "s", "k", "u", "l", "l">>

Config ==
    [ GuildID         |-> "g1",
      ChannelName     |-> "jollyposting",
      TargetUserIDSet |-> {"u1", "u2"},
      JollySkullID    |-> JollySkullName \o <<":", "9">> ]

(***************************************************************************)
(* pure functions of bot.go                                                *)
(***************************************************************************)
\* a channel list entry is [ID, Name, Type]
FindChannelByName_AnyType(channels, name) ==
    LET hits == {i \in 1..Len(channels) : channels[i].Name = name}
    IN  IF hits = {} THEN ""
        ELSE channels[CHOOSE i \in hits : \A j \in hits : i <= j].ID

RECURSIVE FindChannelFrom(_, _, _)
FindChannelFrom(channels, name, i) ==
    IF i > Len(channels) THEN ""
    ELSE IF channels[i].Name = name /\ channels[i].Type = "text" THEN channels[i].ID
    ELSE FindChannelFrom(channels, name, i + 1)

FindChannelByName(channels, name) == FindChannelFrom(channels, name, 1)

IsTargetUser(userID) == userID \in Config.TargetUserIDSet

\* an emoji is [Name, ID], both strings of code points
\* the classifier without strings.ToLower
IsSkullEmoji_CaseSensitive(emoji) ==
    IF \/ emoji.Name = <<Skull>>
       \/ emoji.Name = <<Crossbones, VS16>>
       \/ emoji.Name = <<Crossbones>>
    THEN TRUE
    ELSE IF ~Contains(emoji.Name, <<"s", "k", "u", "l", "l">>) THEN FALSE
         ELSE IF Contains(emoji.Name, JollySkullName) THEN FALSE
         ELSE TRUE

IsSkullEmoji(emoji) ==
    IF \/ emoji.Name = <<Skull>>
       \/ emoji.Name = <<Crossbones, VS16>>
       \/ emoji.Name = <<Crossbones>>
    THEN TRUE
    ELSE LET name == ToLower(emoji.Name)
         IN  IF ~Contains(name, <<"s", "k", "u", "l", "l">>) THEN FALSE
             ELSE IF Contains(name, JollySkullName) THEN FALSE
             ELSE TRUE

\* the API string without the ID
GetEmojiAPIString_NameOnly(emoji) == emoji.Name

GetEmojiAPIString(emoji) ==
    IF emoji.ID # <<>> THEN emoji.Name \o <<":">> \o emoji.ID
    ELSE emoji.Name

isSkullCustomEmoji(emojiTag) ==
    LET parts == Split(emojiTag, <<":">>)
    IN  IF Len(parts) < 2 THEN FALSE
        ELSE LET name == ToLower(parts[2])
             IN  /\ Contains(name, <<"s", "k", "u", "l", "l">>)
                 /\ ~Contains(name, JollySkullName)

\* filterCustomEmojis(content, isSkullCustomEmoji), its only use
RECURSIVE filterCustomEmojis(_)
filterCustomEmojis(content) ==
    IF Len(content) = 0 THEN <<>>
    ELSE LET start == Index(content, <<"<">>)
         IN  IF start = -1 THEN content
             ELSE LET kept == SliceTo(content, start)
                      rest == SliceFrom(content, start)
                      end  == Index(rest, <<">">>)
                  IN  IF end = -1 THEN kept \o rest
                      ELSE LET emojiTag == SliceTo(rest, end + 1)
                               after    == SliceFrom(rest, end + 1)
                           IN  kept
                               \o (IF isSkullCustomEmoji(emojiTag) THEN <<>> ELSE emojiTag)
                               \o filterCustomEmojis(after)

\* the test without the return on content == ""
IsSkullOnlyMessage_EmptyPasses(content) ==
    LET c1 == ReplaceAllEmpty(content, <<" ">>)
        c2 == ReplaceAllEmpty(c1, <<"\n">>)
        c3 == ReplaceAllEmpty(c2, <<"\t">>)
        c4 == ReplaceAllEmpty(c3, <<Skull>>)
        c5 == ReplaceAllEmpty(c4, <<Crossbones, VS16>>)
        c6 == ReplaceAllEmpty(c5, <<Crossbones>>)
    IN  filterCustomEmojis(c6) = <<>>

IsSkullOnlyMessage(content) ==
    LET c1 == ReplaceAllEmpty(content, <<" ">>)
        c2 == ReplaceAllEmpty(c1, <<"\n">>)
        c3 == ReplaceAllEmpty(c2, <<"\t">>)
    IN  IF c3 = <<>> THEN FALSE
        ELSE LET c4 == ReplaceAllEmpty(c3, <<Skull>>)
                 c5 == ReplaceAllEmpty(c4, <<Crossbones, VS16>>)
                 c6 == ReplaceAllEmpty(c5, <<Crossbones>>)
             IN  filterCustomEmojis(c6) = <<>>

\* The filters, as functions of the (ready, channelID) snapshot they take under
\* mu.RLock and of the event.  A reaction event is [ChannelID, MessageID, UserID,
\* Emoji]; a message event is [ChannelID, ID, Author, Content], Author being <<>>
\* for a nil pointer and <<id>> for a user.
\* the filter with the readiness and channel gate left out
ShouldProcessReaction_NoGate(rdy, chID, r) ==
    IsTargetUser(r.UserID) /\ IsSkullEmoji(r.Emoji)

\* the filter as it was with one target user and the unicode skull only
ShouldProcessReaction_SingleTarget(rdy, chID, r) ==
    IF ~rdy THEN FALSE
    ELSE IF r.ChannelID # chID THEN FALSE
    ELSE IF r.UserID # "u1" THEN FALSE
    ELSE IF r.Emoji.Name # <<Skull>> THEN FALSE
    ELSE TRUE

ShouldProcessReaction(rdy, chID, r) ==
    IF ~rdy THEN FALSE
    ELSE IF r.ChannelID # chID THEN FALSE
    ELSE IF ~IsTargetUser(r.UserID) THEN FALSE
    ELSE IF ~IsSkullEmoji(r.Emoji) THEN FALSE
    ELSE TRUE

\* the author test with the nil check joined by the wrong connective
ShouldDeleteMessage_NilPasses(rdy, chID, m) ==
    IF ~rdy THEN FALSE
    ELSE IF m.ChannelID # chID THEN FALSE
    ELSE IF m.Author # <<>> /\ ~IsTargetUser(m.Author[1]) THEN FALSE
    ELSE IsSkullOnlyMessage(m.Content)

ShouldDeleteMessage(rdy, chID, m) ==
    IF ~rdy THEN FALSE
    ELSE IF m.ChannelID # chID THEN FALSE
    ELSE IF m.Author = <<>> \/ ~IsTargetUser(m.Author[1]) THEN FALSE
    ELSE IsSkullOnlyMessage(m.Content)

(***************************************************************************)
(* what the platform and the Session may deliver                           *)
(***************************************************************************)
\* the guild's channel list as GuildChannels may return it: the channel list of
\* a guild changes over time (the monitored channel is renamed, deleted or
\* re-created), so two calls need not return the same list
GuildChannelLists ==
    { << [ID |-> "c1", Name |-> "general", Type |-> "text"],
         [ID |-> "c2", Name |-> "jollyposting", Type |-> "text"] >>,
      << [ID |-> "c4", Name |-> "jollyposting", Type |-> "voice"],
         [ID |-> "c3", Name |-> "jollyposting", Type |-> "text"],
         [ID |-> "c2", Name |-> "jollyposting", Type |-> "text"] >>,
      << [ID |-> "c1", Name |-> "general", Type |-> "text"],
         [ID |-> "c4", Name |-> "jollyposting", Type |-> "voice"] >> }

UnicodeSkull == [Name |-> <<Skull>>, ID |-> <<>>]
CustomSkull == [Name |-> <<"d", "S", "k", "u", "l", "l">>, ID |-> <<"7">>]
JollySkull == [Name |-> JollySkullName, ID |-> <<"9">>]
Thumbs == [Name |-> <<ThumbsUp>>, ID |-> <<>>]

\* the reaction-add events the gateway dispatches
ReactionEvents ==
    [ ChannelID : {"c2", "c3"},
      MessageID : {"m1"},
      UserID    : {"u1", "u3"},
      Emoji     : {CustomSkull, JollySkull} ]

\* the message-create events the gateway dispatches
MessageEvents ==
    [ ChannelID : {"c2", "c3"},
      ID        : {"m2"},
      Author    : {<<>>, <<"u1">>},
      Content   : {<<Skull, " ", Skull>>, <<Skull, "l", "o", "l">>} ]

(***************************************************************************)
(* state                                                                   *)
(***************************************************************************)
ReadyTasks == 1..MaxReady

NoInput == [fn |-> "none"]

NoOutput == [done |-> FALSE]

NoRR == [pc |-> "none"]

IdleWorker ==
    [ pc |-> "idle", kind |-> "none", ev |-> <<>>, snap |-> <<>>, ok |-> FALSE,
      rr |-> NoRR, calls |-> <<>>, delErr |-> "none" ]

IdleOnReady == [pc |-> "idle", found |-> "", err |-> FALSE, ctx |-> 0]

NotStarted == [pc |-> "none", ctx |-> 0]

NoFind == [pc |-> "none"]

NoPM == [pc |-> "none"]

\* ProcessHistoricalMessages(ctx, s) at its entry: beforeID, processed and
\* replaced are its locals; fetches and fetched count the ChannelMessages calls
\* made and the messages they returned, lastFetch is what the last one
\* returned, log the message logged on the way out, page[i] the message the
\* range loop is at, pm the ProcessMessageReactions call on it, mcalls the
\* ChannelMessages calls made so far and returned the ProcessMessageReactions
\* calls that have returned, each with its message, its result and the
\* ReplaceReaction calls it made; progress lists the processed counts of the
\* "historical processing progress" log lines
NewDriver(ctx) ==
    [ pc |-> "started", ctx |-> ctx, log |-> "", beforeID |-> "", processed |-> 0,
      replaced |-> 0, fetches |-> 0, fetched |-> 0, lastFetch |-> "none",
      page |-> <<>>, i |-> 0, pm |-> NoPM, mcalls |-> <<>>, returned |-> <<>>,
      progress |-> <<>> ]

IdleShutdown == [pc |-> "idle", cancel |-> 0]

Init ==
    /\ channelID = ""
    /\ ready = FALSE
    /\ cancel = 0
    /\ mu = 0
    /\ cancelled = {}
    /\ nctx = 0
    /\ rd = [r \in ReadyTasks |-> IdleOnReady]
    /\ bf = [r \in ReadyTasks |-> NotStarted]
    /\ lv = IdleWorker
    /\ sd = IdleShutdown
    /\ fin = NoInput
    /\ fout = NoOutput

(***************************************************************************)
(* OnReady and Initialize                                                  *)
(***************************************************************************)
\* what s.GuildChannels(b.config.GuildID) may return: (channels, err)
GuildChannelsResults ==
    {[err |-> TRUE, channels |-> <<>>]}
        \cup {[err |-> FALSE, channels |-> l] : l \in GuildChannelLists}

\* OnReady returns when Initialize returned an error
AfterInitializeError_Ignored == "c_lock"

AfterInitializeError == "failed"

\* Initialize up to its two error returns: GuildChannels, then FindChannelByName.
\* Ready events are handled in goroutines of their own, so a later OnReady may
\* run while an earlier one is still in progress.
OnReadyInitialize(r) ==
    /\ rd[r].pc = "idle"
    /\ r > 1 => rd[r - 1].pc # "idle"
    /\ \E res \in GuildChannelsResults :
          LET found == IF res.err THEN ""
                       ELSE FindChannelByName(res.channels, Config.ChannelName)
          IN  rd' = [rd EXCEPT ![r] =
                        IF res.err \/ found = ""
                        THEN [@ EXCEPT !.pc = AfterInitializeError, !.err = TRUE]
                        ELSE [@ EXCEPT !.pc = "lock", !.found = found]]
    /\ UNCHANGED <<channelID, ready, cancel, mu, cancelled, nctx, bf, lv, sd, fin, fout>>

\* b.mu.Lock() in Initialize
InitLock(r) ==
    /\ rd[r].pc = "lock"
    /\ mu = 0
    /\ mu' = r
    /\ rd' = [rd EXCEPT ![r].pc = "w_ch"]
    /\ UNCHANGED <<channelID, ready, cancel, cancelled, nctx, bf, lv, sd, fin, fout>>

InitWriteChannel_Dropped(r) ==
    /\ rd[r].pc = "w_ch"
    /\ rd' = [rd EXCEPT ![r].pc = "w_ready", ![r].found = ""]
    /\ UNCHANGED <<channelID, ready, cancel, mu, cancelled, nctx, bf, lv, sd, fin, fout>>

\* b.channelID = channelID
InitWriteChannel(r) ==
    /\ rd[r].pc = "w_ch"
    /\ channelID' = rd[r].found
    /\ rd' = [rd EXCEPT ![r].pc = "w_ready", ![r].found = ""]
    /\ UNCHANGED <<ready, cancel, mu, cancelled, nctx, bf, lv, sd, fin, fout>>

\* Initialize returning with the lock still held
InitWriteReady_NoUnlock(r) ==
    /\ rd[r].pc = "w_ready"
    /\ ready' = TRUE
    /\ rd' = [rd EXCEPT ![r].pc = "c_lock"]
    /\ UNCHANGED <<channelID, cancel, mu, cancelled, nctx, bf, lv, sd, fin, fout>>

\* b.ready = true; b.mu.Unlock(); Initialize returns nil
InitWriteReady(r) ==
    /\ rd[r].pc = "w_ready"
    /\ ready' = TRUE
    /\ mu' = 0
    /\ rd' = [rd EXCEPT ![r].pc = "c_lock"]
    /\ UNCHANGED <<channelID, cancel, cancelled, nctx, bf, lv, sd, fin, fout>>

\* ctx, cancel := context.WithCancel(...); b.mu.Lock()
OnReadyNewContext(r) ==
    /\ rd[r].pc = "c_lock"
    /\ mu = 0
    /\ mu' = r
    /\ nctx' = nctx + 1
    /\ rd' = [rd EXCEPT ![r].pc = "c_write", ![r].ctx = nctx + 1]
    /\ UNCHANGED <<channelID, ready, cancel, cancelled, bf, lv, sd, fin, fout>>

\* b.cancel = cancel; b.mu.Unlock()
OnReadyStoreCancel(r) ==
    /\ rd[r].pc = "c_write"
    /\ cancel' = rd[r].ctx
    /\ mu' = 0
    /\ rd' = [rd EXCEPT ![r].pc = "go"]
    /\ UNCHANGED <<channelID, ready, cancelled, nctx, bf, lv, sd, fin, fout>>

\* go b.ProcessHistoricalMessages(ctx, s)
OnReadyGo(r) ==
    /\ rd[r].pc = "go"
    /\ bf' = [bf EXCEPT ![r] = NewDriver(rd[r].ctx)]
    /\ rd' = [rd EXCEPT ![r].pc = "done"]
    /\ UNCHANGED <<channelID, ready, cancel, mu, cancelled, nctx, lv, sd, fin, fout>>

(***************************************************************************)
(* Shutdown                                                                *)
(***************************************************************************)
\* b.mu.RLock(); cancel := b.cancel; b.mu.RUnlock()
ShutdownRead ==
    /\ sd.pc = "idle"
    /\ mu = 0
    /\ sd' = [pc |-> "cancel", cancel |-> cancel]
    /\ UNCHANGED <<channelID, ready, cancel, mu, cancelled, nctx, rd, bf, lv, fin, fout>>

\* cancel() without the test for nil
ShutdownCancel_NoNilCheck ==
    /\ sd.pc = "cancel"
    /\ cancelled' = cancelled \cup {sd.cancel}
    /\ sd' = IdleShutdown
    /\ UNCHANGED <<channelID, ready, cancel, mu, nctx, rd, bf, lv, fin, fout>>

\* if cancel != nil { cancel() }
ShutdownCancel ==
    /\ sd.pc = "cancel"
    /\ cancelled' = IF sd.cancel # 0 THEN cancelled \cup {sd.cancel} ELSE cancelled
    /\ sd' = IdleShutdown
    /\ UNCHANGED <<channelID, ready, cancel, mu, nctx, rd, bf, lv, fin, fout>>

(***************************************************************************)
(* ReplaceReaction                                                         *)
(*                                                                         *)
(* A task record t carries the Session calls it has issued (t.calls) and   *)
(* the ReplaceReaction invocation it is in (t.rr); rmErr and addErr are    *)
(* what the Session returned: "none" (not called), "nil" or "err".         *)
(***************************************************************************)
NewRR(messageID, userID, emoji) ==
    [ pc |-> "remove", MessageID |-> messageID, UserID |-> userID, Emoji |-> emoji,
      rmErr |-> "none", addErr |-> "none", result |-> "none" ]

RemoveCall(ch, messageID, emojiStr, userID) ==
    [ op |-> "RemoveReaction", ChannelID |-> ch, MessageID |-> messageID,
      Emoji |-> emojiStr, UserID |-> userID ]

AddCall(ch, messageID, emojiStr) ==
    [ op |-> "AddReaction", ChannelID |-> ch, MessageID |-> messageID,
      Emoji |-> emojiStr, UserID |-> "" ]

DeleteCall(ch, messageID) ==
    [ op |-> "DeleteMessage", ChannelID |-> ch, MessageID |-> messageID,
      Emoji |-> <<>>, UserID |-> "" ]

\* the remove step with the early return on error left out
ReplaceRemove_NoReturn(t, err) ==
    [ t EXCEPT
        !.calls = Append(@, RemoveCall(channelID, t.rr.MessageID,
                                       GetEmojiAPIString(t.rr.Emoji), t.rr.UserID)),
        !.rr.rmErr = IF err THEN "err" ELSE "nil",
        !.rr.pc = "add" ]

\* the remove step as it was before custom emoji were supported
ReplaceRemove_UnicodeOnly(t, err) ==
    [ t EXCEPT
        !.calls = Append(@, RemoveCall(channelID, t.rr.MessageID, <<Skull>>, t.rr.UserID)),
        !.rr.rmErr = IF err THEN "err" ELSE "nil",
        !.rr.pc = IF err THEN "ret" ELSE "add",
        !.rr.result = IF err THEN FALSE ELSE @ ]

\* emojiStr := GetEmojiAPIString(emoji); err := s.MessageReactionRemove(...);
\* if err != nil { return false }
ReplaceRemove(t, err) ==
    [ t EXCEPT
        !.calls = Append(@, RemoveCall(channelID, t.rr.MessageID,
                                       GetEmojiAPIString(t.rr.Emoji), t.rr.UserID)),
        !.rr.rmErr = IF err THEN "err" ELSE "nil",
        !.rr.pc = IF err THEN "ret" ELSE "add",
        !.rr.result = IF err THEN FALSE ELSE @ ]

\* the add step with the error of the add ignored
ReplaceAdd_IgnoreErr(t, err) ==
    [ t EXCEPT
        !.calls = Append(@, AddCall(channelID, t.rr.MessageID, Config.JollySkullID)),
        !.rr.addErr = IF err THEN "err" ELSE "nil",
        !.rr.pc = "ret",
        !.rr.result = TRUE ]

\* err = s.MessageReactionAdd(...); if err != nil { return false }; return true
ReplaceAdd(t, err) ==
    [ t EXCEPT
        !.calls = Append(@, AddCall(channelID, t.rr.MessageID, Config.JollySkullID)),
        !.rr.addErr = IF err THEN "err" ELSE "nil",
        !.rr.pc = "ret",
        !.rr.result = ~err ]

(***************************************************************************)
(* live events: OnReactionAdd and OnMessageCreate                          *)
(***************************************************************************)
\* OnReactionAdd with a filter that reads the two fields without mu.RLock
OnReactionAdd_NoRLock(r) ==
    /\ lv.pc = "idle"
    /\ LET ok == ShouldProcessReaction(ready, channelID, r)
       IN  lv' = [ IdleWorker EXCEPT
                     !.pc = IF ok THEN "replace" ELSE "done",
                     !.kind = "reaction",
                     !.ev = r,
                     !.snap = [ready |-> ready, channelID |-> channelID],
                     !.ok = ok,
                     !.rr = IF ok
                            THEN NewRR(r.MessageID, r.UserID, r.Emoji) ELSE NoRR ]
    /\ UNCHANGED <<channelID, ready, cancel, mu, cancelled, nctx, rd, bf, sd, fin, fout>>

\* OnReactionAdd up to the verdict of ShouldProcessReaction, which reads
\* (ready, channelID) between mu.RLock and mu.RUnlock
OnReactionAdd(r) ==
    /\ lv.pc = "idle"
    /\ mu = 0
    /\ LET ok == ShouldProcessReaction(ready, channelID, r)
       IN  lv' = [ IdleWorker EXCEPT
                     !.pc = IF ok THEN "replace" ELSE "done",
                     !.kind = "reaction",
                     !.ev = r,
                     !.snap = [ready |-> ready, channelID |-> channelID],
                     !.ok = ok,
                     !.rr = IF ok
                            THEN NewRR(r.MessageID, r.UserID, r.Emoji) ELSE NoRR ]
    /\ UNCHANGED <<channelID, ready, cancel, mu, cancelled, nctx, rd, bf, sd, fin, fout>>

\* a handler that calls ReplaceReaction again when it has returned false
AfterReplace_Again(t) ==
    IF t.rr.pc # "ret" THEN t
    ELSE IF t.rr.result THEN [t EXCEPT !.pc = "done"]
    ELSE [t EXCEPT !.rr = NewRR(t.rr.MessageID, t.rr.UserID, t.rr.Emoji)]

\* OnReactionAdd drops the result of ReplaceReaction and returns
AfterReplace(t) == IF t.rr.pc = "ret" THEN [t EXCEPT !.pc = "done"] ELSE t

\* ReplaceReaction called from OnReactionAdd: the remove
LiveReplaceRemove ==
    /\ lv.pc = "replace"
    /\ lv.rr.pc = "remove"
    /\ \E err \in BOOLEAN : lv' = AfterReplace(ReplaceRemove(lv, err))
    /\ UNCHANGED <<channelID, ready, cancel, mu, cancelled, nctx, rd, bf, sd, fin, fout>>

\* ReplaceReaction called from OnReactionAdd: the add
LiveReplaceAdd ==
    /\ lv.pc = "replace"
    /\ lv.rr.pc = "add"
    /\ \E err \in BOOLEAN : lv' = AfterReplace(ReplaceAdd(lv, err))
    /\ UNCHANGED <<channelID, ready, cancel, mu, cancelled, nctx, rd, bf, sd, fin, fout>>

\* OnMessageCreate up to the verdict of ShouldDeleteMessage
OnMessageCreate(m) ==
    /\ lv.pc = "idle"
    /\ mu = 0
    /\ LET ok == ShouldDeleteMessage(ready, channelID, m)
       IN  lv' = [ IdleWorker EXCEPT
                     !.pc = IF ok THEN "delete" ELSE "done",
                     !.kind = "message",
                     !.ev = m,
                     !.snap = [ready |-> ready, channelID |-> channelID],
                     !.ok = ok ]
    /\ UNCHANGED <<channelID, ready, cancel, mu, cancelled, nctx, rd, bf, sd, fin, fout>>

\* a handler that calls ChannelMessageDelete again when it has failed
LiveDelete_Retry ==
    /\ lv.pc = "delete"
    /\ \E err \in BOOLEAN :
          lv' = [lv EXCEPT !.calls = Append(@, DeleteCall(lv.ev.ChannelID, lv.ev.ID)),
                           !.delErr = IF err THEN "err" ELSE "nil",
                           !.pc = IF err THEN "delete" ELSE "done"]
    /\ UNCHANGED <<channelID, ready, cancel, mu, cancelled, nctx, rd, bf, sd, fin, fout>>

\* s.ChannelMessageDelete(m.ChannelID, m.ID); its error is logged
LiveDelete ==
    /\ lv.pc = "delete"
    /\ \E err \in BOOLEAN :
          lv' = [lv EXCEPT !.calls = Append(@, DeleteCall(lv.ev.ChannelID, lv.ev.ID)),
                           !.delErr = IF err THEN "err" ELSE "nil",
                           !.pc = "done"]
    /\ UNCHANGED <<channelID, ready, cancel, mu, cancelled, nctx, rd, bf, sd, fin, fout>>

\* the handler returns and the dispatch worker is free for the next event
LiveReturn ==
    /\ lv.pc = "done"
    /\ lv' = IdleWorker
    /\ UNCHANGED <<channelID, ready, cancel, mu, cancelled, nctx, rd, bf, sd, fin, fout>>

Next ==
    \/ \E r \in ReadyTasks : OnReadyInitialize(r)
    \/ \E r \in ReadyTasks : InitLock(r)
    \/ \E r \in ReadyTasks : InitWriteChannel(r)
    \/ \E r \in ReadyTasks : InitWriteReady(r)
    \/ \E r \in ReadyTasks : OnReadyNewContext(r)
    \/ \E r \in ReadyTasks : OnReadyStoreCancel(r)
    \/ \E r \in ReadyTasks : OnReadyGo(r)
    \/ ShutdownRead
    \/ ShutdownCancel
    \/ \E r \in ReactionEvents : OnReactionAdd(r)
    \/ LiveReplaceRemove
    \/ LiveReplaceAdd
    \/ \E m \in MessageEvents : OnMessageCreate(m)
    \/ LiveDelete
    \/ LiveReturn

Spec == Init /\ [][Next]_vars

(***************************************************************************)
(* The filters on a Bot built directly, as the unit tests build it: any    *)
(* (ready, channelID), any event.  The handlers are the ones of Spec.      *)
(***************************************************************************)
Crossed == [Name |-> <<Crossbones, VS16>>, ID |-> <<>>]
CrossedBare == [Name |-> <<Crossbones>>, ID |-> <<>>]
JollyUpper == [Name |-> <<"J", "o", "l", "l", "y", "S", "k", "u", "l", "l">>, ID |-> <<"9">>]
AlmostSkull == [Name |-> <<"s", "k", "u", "l">>, ID |-> <<"7">>]

AnyReactionEvents ==
    [ ChannelID : {"", "c2", "c3"},
      MessageID : {"m1"},
      UserID    : {"", "u1", "u2", "u3"},
      Emoji     : {UnicodeSkull, Crossed, CrossedBare, CustomSkull, JollySkull,
                   JollyUpper, AlmostSkull, Thumbs} ]

CustomSkullTag == <<"<", ":", "d", "S", "k", "u", "l", "l", ":", "7", ">">>
JollySkullTag == <<"<", ":">> \o JollySkullName \o <<":", "9", ">">>

AnyContents ==
    { <<>>,
      <<" ", "\t", "\n">>,
      <<Skull>>,
      <<" ", Skull, " ", Skull, "\n">>,
      <<Crossbones, VS16, Crossbones>>,
      <<Skull, " ", "l", "o", "l">>,
      JollySkullTag,
      CustomSkullTag \o <<Skull>>,
      <<Skull>> \o SubSeq(CustomSkullTag, 1, 10),
      <<Skull, "<", ":", "o", "k", ":", "7", ">">> }

AnyMessageEvents ==
    [ ChannelID : {"", "c2", "c3"},
      ID        : {"m2"},
      Author    : {<<>>, <<"u1">>, <<"u2">>, <<"u3">>},
      Content   : AnyContents ]

InitFilters ==
    /\ channelID \in {"", "c2"}
    /\ ready \in BOOLEAN
    /\ cancel = 0
    /\ mu = 0
    /\ cancelled = {}
    /\ nctx = 0
    /\ rd = [r \in ReadyTasks |-> IdleOnReady]
    /\ bf = [r \in ReadyTasks |-> NotStarted]
    /\ lv = IdleWorker
    /\ sd = IdleShutdown
    /\ fin = NoInput
    /\ fout = NoOutput

NextFilters ==
    \/ \E r \in AnyReactionEvents : OnReactionAdd(r)
    \/ LiveReplaceRemove
    \/ LiveReplaceAdd
    \/ \E m \in AnyMessageEvents : OnMessageCreate(m)
    \/ LiveDelete
    \/ LiveReturn

SpecFilters == InitFilters /\ [][NextFilters]_vars

(***************************************************************************)
(* FindChannelByName on any channel list                                   *)
(***************************************************************************)
AnyChannels ==
    [ ID : {"c1", "c2"}, Name : {"jollyposting", "general"},
      Type : {"text", "voice", "category"} ]

RECURSIVE ListsUpTo(_)
ListsUpTo(n) ==
    IF n = 0 THEN {<<>>}
    ELSE LET shorter == ListsUpTo(n - 1)
         IN  shorter \cup {Append(l, c) : l \in {x \in shorter : Len(x) = n - 1},
                                          c \in AnyChannels}

InitFind ==
    /\ channelID = ""
    /\ ready = FALSE
    /\ cancel = 0
    /\ mu = 0
    /\ cancelled = {}
    /\ nctx = 0
    /\ rd = [r \in ReadyTasks |-> IdleOnReady]
    /\ bf = [r \in ReadyTasks |-> NotStarted]
    /\ lv = IdleWorker
    /\ sd = IdleShutdown
    /\ fin \in [ fn : {"FindChannelByName"}, channels : ListsUpTo(MaxChannels),
                 name : {"jollyposting", "nonexistent"} ]
    /\ fout = NoOutput

CallFindChannelByName ==
    /\ fin.fn = "FindChannelByName"
    /\ ~fout.done
    /\ fout' = [done |-> TRUE, val |-> FindChannelByName(fin.channels, fin.name)]
    /\ UNCHANGED <<channelID, ready, cancel, mu, cancelled, nctx, rd, bf, lv, sd, fin>>

NextFind == CallFindChannelByName

SpecFind == InitFind /\ [][NextFind]_vars

(***************************************************************************)
(* findTargetUsersWithReaction                                             *)
(*                                                                         *)
(* t.ft is the invocation a task is in: afterID and found are its locals,  *)
(* failed records that a fetch returned an error.  A fetch result is       *)
(* [err, users], users being the IDs of the page.                          *)
(***************************************************************************)
PageSize == 100

NewFind(messageID, emoji) ==
    [ pc |-> "fetch", MessageID |-> messageID, Emoji |-> emoji, afterID |-> "",
      found |-> <<>>, failed |-> FALSE ]

ReactorsCall(ch, messageID, emojiStr, limit, afterID) ==
    [ op |-> "MessageReactions", ChannelID |-> ch, MessageID |-> messageID,
      Emoji |-> emojiStr, Limit |-> limit, After |-> afterID ]

\* the users who reacted, as the Session's data holds them, by message
SessionReactors(messageID) == fin.reactors[messageID]

\* a Session that lists the reactors after the cursor, at most limit of them
ReactorsPage(list, limit, afterID) ==
    LET hits == {i \in 1..Len(list) : list[i] = afterID}
        p == IF afterID = "" THEN 0
             ELSE IF hits = {} THEN Len(list)
             ELSE CHOOSE i \in hits : \A j \in hits : i <= j
        last == IF p + limit < Len(list) THEN p + limit ELSE Len(list)
    IN  SubSeq(list, p + 1, last)

\* what s.MessageReactions(...) may return to the invocation t.ft
MessageReactionsResults(t) ==
    { [err |-> TRUE, users |-> <<>>],
      [err |-> FALSE,
       users |-> ReactorsPage(SessionReactors(t.ft.MessageID), PageSize, t.ft.afterID)] }

\* one fetch that returns after the first page, whatever its length
FindFetch_FirstPageOnly(t, res) ==
    LET call == ReactorsCall(channelID, t.ft.MessageID, GetEmojiAPIString(t.ft.Emoji),
                             PageSize, t.ft.afterID)
        u == [t EXCEPT !.calls = Append(@, call)]
    IN  IF res.err THEN [u EXCEPT !.ft.pc = "ret", !.ft.failed = TRUE]
        ELSE [u EXCEPT !.ft.found = @ \o SelectSeq(res.users, IsTargetUser),
                       !.ft.pc = "ret"]

\* one fetch with the end-of-list test len(users) <= 100
FindFetch_OffByOne(t, res) ==
    LET call == ReactorsCall(channelID, t.ft.MessageID, GetEmojiAPIString(t.ft.Emoji),
                             PageSize, t.ft.afterID)
        u == [t EXCEPT !.calls = Append(@, call)]
    IN  IF res.err THEN [u EXCEPT !.ft.pc = "ret", !.ft.failed = TRUE]
        ELSE IF Len(res.users) = 0 THEN [u EXCEPT !.ft.pc = "ret"]
        ELSE IF Len(res.users) <= PageSize
             THEN [u EXCEPT !.ft.found = @ \o SelectSeq(res.users, IsTargetUser),
                            !.ft.pc = "ret"]
        ELSE [u EXCEPT !.ft.found = @ \o SelectSeq(res.users, IsTargetUser),
                       !.ft.afterID = res.users[Len(res.users)]]

\* one fetch that returns nil, not found, on an error
FindFetch_NilOnError(t, res) ==
    LET call == ReactorsCall(channelID, t.ft.MessageID, GetEmojiAPIString(t.ft.Emoji),
                             PageSize, t.ft.afterID)
        u == [t EXCEPT !.calls = Append(@, call)]
    IN  IF res.err
        THEN [u EXCEPT !.ft.pc = "ret", !.ft.failed = TRUE, !.ft.found = <<>>]
        ELSE IF Len(res.users) = 0 THEN [u EXCEPT !.ft.pc = "ret"]
        ELSE IF Len(res.users) < PageSize
             THEN [u EXCEPT !.ft.found = @ \o SelectSeq(res.users, IsTargetUser),
                            !.ft.pc = "ret"]
        ELSE [u EXCEPT !.ft.found = @ \o SelectSeq(res.users, IsTargetUser),
                       !.ft.afterID = res.users[Len(res.users)]]

\* one turn of the loop: users, err := s.MessageReactions(b.channelID, messageID,
\* emojiStr, 100, "", afterID); return found on an error or an empty page;
\* append the target users; return found on a short page; advance afterID
FindFetch(t, res) ==
    LET call == ReactorsCall(channelID, t.ft.MessageID, GetEmojiAPIString(t.ft.Emoji),
                             PageSize, t.ft.afterID)
        u == [t EXCEPT !.calls = Append(@, call)]
    IN  IF res.err THEN [u EXCEPT !.ft.pc = "ret", !.ft.failed = TRUE]
        ELSE IF Len(res.users) = 0 THEN [u EXCEPT !.ft.pc = "ret"]
        ELSE IF Len(res.users) < PageSize
             THEN [u EXCEPT !.ft.found = @ \o SelectSeq(res.users, IsTargetUser),
                            !.ft.pc = "ret"]
        ELSE [u EXCEPT !.ft.found = @ \o SelectSeq(res.users, IsTargetUser),
                       !.ft.afterID = res.users[Len(res.users)]]

(***************************************************************************)
(* findTargetUsersWithReaction called on its own, on any reactor list      *)
(***************************************************************************)
\* n reactors with distinct IDs: target u1 at position p1 and target u2 at
\* position p2 (0 for absent), every other reactor a user who is no target
ReactorList(n, p1, p2) ==
    [ i \in 1..n |-> IF i = p1 THEN "u1" ELSE IF i = p2 THEN "u2" ELSE ToString(i) ]

\* where a target may stand in a list of n: absent, first, last of a page,
\* first of the next page, in the third page, last
TargetPositions(n) ==
    {0} \cup ({1, PageSize, PageSize + 1, 2 * PageSize + 1, n} \cap (1..n))

FindInputsOf(n) ==
    { [ fn |-> "findTargetUsersWithReaction",
        reactors |-> [m \in {"m1"} |-> ReactorList(n, p1, p2)] ] :
        p1 \in TargetPositions(n), p2 \in TargetPositions(n) }

FindInputs == UNION {FindInputsOf(n) : n \in 0..MaxReactors}

InitReactors ==
    /\ channelID = "c2"
    /\ ready = TRUE
    /\ cancel = 0
    /\ mu = 0
    /\ cancelled = {}
    /\ nctx = 0
    /\ rd = [r \in ReadyTasks |-> IdleOnReady]
    /\ bf = [r \in ReadyTasks |-> NotStarted]
    /\ lv = IdleWorker
    /\ sd = IdleShutdown
    /\ fin \in FindInputs
    /\ fout = [ft |-> NewFind("m1", CustomSkull), calls |-> <<>>]

CallFindFetch ==
    /\ fin.fn = "findTargetUsersWithReaction"
    /\ fout.ft.pc = "fetch"
    /\ \E res \in MessageReactionsResults(fout) : fout' = FindFetch(fout, res)
    /\ UNCHANGED <<channelID, ready, cancel, mu, cancelled, nctx, rd, bf, lv, sd, fin>>

NextReactors == CallFindFetch

SpecReactors == InitReactors /\ [][NextReactors]_vars

(***************************************************************************)
(* ProcessMessageReactions                                                 *)
(*                                                                         *)
(* p is one invocation: msg its message ([ID, Timestamp, Reactions], the   *)
(* Reactions being the emoji of the reaction summaries), ri the summary    *)
(* the outer loop is at, ft the findTargetUsersWithReaction call made for  *)
(* it, ui the position in the users that call returned, rr the             *)
(* ReplaceReaction call in progress, count the local replaced.  finds and  *)
(* rrs list what the calls made so far returned.  The steps are the        *)
(* Session calls; what the code does between two of them belongs to the    *)
(* step of the first.                                                      *)
(***************************************************************************)
\* the outer loop with the IsSkullEmoji test left out
RECURSIVE ScanReactions_AnyEmoji(_)
ScanReactions_AnyEmoji(p) ==
    IF p.ri > Len(p.msg.Reactions) THEN [p EXCEPT !.pc = "ret"]
    ELSE [p EXCEPT !.pc = "find", !.ft = NewFind(p.msg.ID, p.msg.Reactions[p.ri])]

\* for _, reaction := range msg.Reactions { if !b.IsSkullEmoji(reaction.Emoji)
\* { continue }; targetUsers := b.findTargetUsersWithReaction(...) ...: from
\* summary ri to the next fetch, or to return replaced
RECURSIVE ScanReactions(_)
ScanReactions(p) ==
    IF p.ri > Len(p.msg.Reactions) THEN [p EXCEPT !.pc = "ret"]
    ELSE IF ~IsSkullEmoji(p.msg.Reactions[p.ri]) THEN ScanReactions([p EXCEPT !.ri = @ + 1])
    ELSE [p EXCEPT !.pc = "find", !.ft = NewFind(p.msg.ID, p.msg.Reactions[p.ri])]

NewPM(msg) ==
    ScanReactions([ pc |-> "scan", msg |-> msg, ri |-> 1, ft |-> NoFind, ui |-> 0,
                    count |-> 0, rr |-> NoRR, calls |-> <<>>, finds |-> <<>>,
                    rrs |-> <<>> ])

\* for _, userID := range targetUsers { if b.ReplaceReaction(...) ...: from user
\* ui to the next ReplaceReaction call, or on to the next summary
NextUser(p) ==
    IF p.ui > Len(p.ft.found)
    THEN ScanReactions([p EXCEPT !.ri = @ + 1, !.ft = NoFind, !.ui = 0])
    ELSE [p EXCEPT !.pc = "replace",
                   !.rr = NewRR(p.msg.ID, p.ft.found[p.ui], p.ft.Emoji)]

\* one fetch of findTargetUsersWithReaction and, when it has returned, the
\* start of the loop over targetUsers
PMFetch(p, res) ==
    LET q == FindFetch(p, res)
    IN  IF q.ft.pc # "ret" THEN q
        ELSE NextUser([q EXCEPT
                 !.finds = Append(@, [Emoji |-> q.ft.Emoji, users |-> q.ft.found,
                                      failed |-> q.ft.failed]),
                 !.ui = 1])

\* a loop that gives the message up at the first ReplaceReaction that fails
PMAfterReplace_StopOnFailure(q) ==
    IF q.rr.pc # "ret" THEN q
    ELSE IF ~q.rr.result
    THEN [q EXCEPT !.rrs = Append(@, [Emoji |-> q.rr.Emoji, UserID |-> q.rr.UserID,
                                      result |-> q.rr.result]),
                   !.rr = NoRR, !.pc = "ret"]
    ELSE NextUser([q EXCEPT
             !.count = @ + 1,
             !.rrs = Append(@, [Emoji |-> q.rr.Emoji, UserID |-> q.rr.UserID,
                                result |-> q.rr.result]),
             !.ui = @ + 1,
             !.rr = NoRR])

\* if b.ReplaceReaction(s, msg.ID, userID, reaction.Emoji) { replaced++ }
PMAfterReplace(q) ==
    IF q.rr.pc # "ret" THEN q
    ELSE NextUser([q EXCEPT
             !.count = IF q.rr.result THEN @ + 1 ELSE @,
             !.rrs = Append(@, [Emoji |-> q.rr.Emoji, UserID |-> q.rr.UserID,
                                result |-> q.rr.result]),
             !.ui = @ + 1,
             !.rr = NoRR])

PMRemove(p, err) == PMAfterReplace(ReplaceRemove(p, err))

PMAdd(p, err) == PMAfterReplace(ReplaceAdd(p, err))

(***************************************************************************)
(* ProcessMessageReactions called on its own                               *)
(***************************************************************************)
\* the reaction summaries of a message: at most two, of different emoji
SummaryLists ==
    LET E == {UnicodeSkull, CustomSkull, Thumbs, JollySkull}
    IN  {<<>>} \cup {<<e>> : e \in E}
               \cup {l \in {<<e1, e2>> : e1 \in E, e2 \in E} : l[1] # l[2]}

PMInputs ==
    [ fn : {"ProcessMessageReactions"},
      msg : [ID : {"m1"}, Timestamp : {20250615}, Reactions : SummaryLists],
      reactors : [{"m1"} -> {<<>>, <<"u3">>, <<"u3", "u1">>, <<"u1", "u3", "u2">>}] ]

InitReconcile ==
    /\ channelID = "c2"
    /\ ready = TRUE
    /\ cancel = 0
    /\ mu = 0
    /\ cancelled = {}
    /\ nctx = 0
    /\ rd = [r \in ReadyTasks |-> IdleOnReady]
    /\ bf = [r \in ReadyTasks |-> NotStarted]
    /\ lv = IdleWorker
    /\ sd = IdleShutdown
    /\ fin \in PMInputs
    /\ fout = NoPM

CallProcessMessageReactions ==
    /\ fin.fn = "ProcessMessageReactions"
    /\ fout = NoPM
    /\ fout' = NewPM(fin.msg)
    /\ UNCHANGED <<channelID, ready, cancel, mu, cancelled, nctx, rd, bf, lv, sd, fin>>

CallPMFetch ==
    /\ fout.pc = "find"
    /\ \E res \in MessageReactionsResults(fout) : fout' = PMFetch(fout, res)
    /\ UNCHANGED <<channelID, ready, cancel, mu, cancelled, nctx, rd, bf, lv, sd, fin>>

CallPMRemove ==
    /\ fout.pc = "replace"
    /\ fout.rr.pc = "remove"
    /\ \E err \in BOOLEAN : fout' = PMRemove(fout, err)
    /\ UNCHANGED <<channelID, ready, cancel, mu, cancelled, nctx, rd, bf, lv, sd, fin>>

CallPMAdd ==
    /\ fout.pc = "replace"
    /\ fout.rr.pc = "add"
    /\ \E err \in BOOLEAN : fout' = PMAdd(fout, err)
    /\ UNCHANGED <<channelID, ready, cancel, mu, cancelled, nctx, rd, bf, lv, sd, fin>>

NextReconcile ==
    \/ CallProcessMessageReactions
    \/ CallPMFetch
    \/ CallPMRemove
    \/ CallPMAdd

SpecReconcile == InitReconcile /\ [][NextReconcile]_vars

(***************************************************************************)
(* ProcessHistoricalMessages                                               *)
(*                                                                         *)
(* Instants are days written yyyymmdd.  A ChannelMessages result is        *)
(* [err, messages].  The goroutine's steps are its Session calls and the   *)
(* test of ctx.Done() at the top of the loop; what the code does between   *)
(* two of them belongs to the step of the first.                           *)
(***************************************************************************)
HistoricalCutoff == 20250101

H1 == [ID |-> "h1", Timestamp |-> 20250601, Reactions |-> <<Thumbs, UnicodeSkull, CustomSkull>>]
H2 == [ID |-> "h2", Timestamp |-> HistoricalCutoff, Reactions |-> <<CustomSkull>>]
H3 == [ID |-> "h3", Timestamp |-> 20241201, Reactions |-> <<UnicodeSkull>>]
H4 == [ID |-> "h4", Timestamp |-> 20250601, Reactions |-> <<>>]

\* the non-empty pages s.ChannelMessages may return
HistoryPages == {<<H1, H3>>, <<H4, H2>>, <<H4, H3, H1>>}

\* who reacted to the messages of the channel's history
HistoryReactors ==
    [ m \in {"h1", "h2", "h3", "h4"} |->
        CASE m = "h1" -> <<"u3", "u1">>
          [] m = "h2" -> <<"u2", "u1">>
          [] m = "h3" -> <<"u1">>
          [] OTHER -> <<>> ]

\* s.ChannelMessages(b.channelID, 100, beforeID, "", "")
HistoryLimit == 100

ChannelMessagesCall(ch, beforeID) ==
    [op |-> "ChannelMessages", Channel |-> ch, Limit |-> HistoryLimit, Before |-> beforeID]

ChannelMessagesResults ==
    { [err |-> TRUE, messages |-> <<>>] }
        \cup { [err |-> FALSE, messages |-> p] : p \in {<<>>} \cup HistoryPages }

\* a loop whose select has no case for ctx.Done()
CtxDone_Never(ctx) == FALSE

\* select { case <-ctx.Done(): ...; default: }
CtxDone(ctx) == ctx \in cancelled

\* the goroutine logs and returns
Terminate(t, log) == [t EXCEPT !.pc = "done", !.log = log]

\* the range loop with the cutoff test !msg.Timestamp.After(cutoff)
StartMessage_NonStrictCutoff(t) ==
    IF t.page[t.i].Timestamp <= HistoricalCutoff
    THEN Terminate(t, "reached messages before cutoff")
    ELSE [t EXCEPT !.pc = "msg", !.pm = NewPM(t.page[t.i])]

\* the range loop with a test of ctx.Done() before each message
StartMessage_ChecksCtx(t) ==
    IF t.ctx \in cancelled THEN Terminate(t, "historical processing cancelled")
    ELSE IF t.page[t.i].Timestamp < HistoricalCutoff
    THEN Terminate(t, "reached messages before cutoff")
    ELSE [t EXCEPT !.pc = "msg", !.pm = NewPM(t.page[t.i])]

\* the range loop with processed++ ahead of the cutoff test
StartMessage_CountsCutoff(t) ==
    IF t.page[t.i].Timestamp < HistoricalCutoff
    THEN Terminate([t EXCEPT !.processed = @ + 1], "reached messages before cutoff")
    ELSE [t EXCEPT !.pc = "msg", !.pm = NewPM(t.page[t.i])]

\* for _, msg := range messages { if msg.Timestamp.Before(cutoff) { return };
\* count := b.ProcessMessageReactions(s, msg) ...: message i of the page
StartMessage(t) ==
    IF t.page[t.i].Timestamp < HistoricalCutoff
    THEN Terminate(t, "reached messages before cutoff")
    ELSE [t EXCEPT !.pc = "msg", !.pm = NewPM(t.page[t.i])]

\* a fetch whose error is followed by continue
DriverFetched_Retry(t, res) ==
    LET u == [t EXCEPT !.mcalls = Append(@, ChannelMessagesCall(channelID, t.beforeID)),
                       !.fetches = @ + 1, !.fetched = @ + Len(res.messages),
                       !.lastFetch = IF res.err THEN "err"
                                     ELSE IF res.messages = <<>> THEN "empty"
                                     ELSE "page"]
    IN  IF res.err THEN [u EXCEPT !.pc = "loop"]
        ELSE IF Len(res.messages) = 0 THEN Terminate(u, "historical processing complete")
        ELSE StartMessage([u EXCEPT !.page = res.messages, !.i = 1])

\* a fetch whose empty page is followed by continue
DriverFetched_EmptyContinues(t, res) ==
    LET u == [t EXCEPT !.mcalls = Append(@, ChannelMessagesCall(channelID, t.beforeID)),
                       !.fetches = @ + 1, !.fetched = @ + Len(res.messages),
                       !.lastFetch = IF res.err THEN "err"
                                     ELSE IF res.messages = <<>> THEN "empty"
                                     ELSE "page"]
    IN  IF res.err THEN Terminate(u, "historical processing complete")
        ELSE IF Len(res.messages) = 0 THEN [u EXCEPT !.pc = "loop"]
        ELSE StartMessage([u EXCEPT !.page = res.messages, !.i = 1])

\* messages, err := s.ChannelMessages(b.channelID, 100, beforeID, "", "");
\* if err != nil { break }; if len(messages) == 0 { break }; for ... range messages
DriverFetched(t, res) ==
    LET u == [t EXCEPT !.mcalls = Append(@, ChannelMessagesCall(channelID, t.beforeID)),
                       !.fetches = @ + 1, !.fetched = @ + Len(res.messages),
                       !.lastFetch = IF res.err THEN "err"
                                     ELSE IF res.messages = <<>> THEN "empty"
                                     ELSE "page"]
    IN  IF res.err THEN Terminate(u, "historical processing complete")
        ELSE IF Len(res.messages) = 0 THEN Terminate(u, "historical processing complete")
        ELSE StartMessage([u EXCEPT !.page = res.messages, !.i = 1])

\* a loop that pages from the first message of the page it has processed
EndOfPage_FirstID(t) ==
    [t EXCEPT !.beforeID = t.page[1].ID, !.page = <<>>, !.i = 0, !.pc = "loop"]

\* if processed%500 == 0 { slog.Info("historical processing progress", ...) }
ProgressEvery == 500

\* beforeID = messages[len(messages)-1].ID, the progress log, then the sleep
\* and the loop top
EndOfPage(t) ==
    [t EXCEPT !.beforeID = t.page[Len(t.page)].ID, !.page = <<>>, !.i = 0, !.pc = "loop",
              !.progress = IF t.processed % ProgressEvery = 0
                           THEN Append(@, t.processed) ELSE @]

\* the top of the loop with the context cancelled
DriverCancelled(d) ==
    /\ bf[d].pc \in {"started", "loop"}
    /\ CtxDone(bf[d].ctx)
    /\ bf' = [bf EXCEPT ![d] = Terminate(@, "historical processing cancelled")]
    /\ UNCHANGED <<channelID, ready, cancel, mu, cancelled, nctx, rd, lv, sd, fin, fout>>

\* the top of the loop otherwise: the fetch of the next page
DriverFetch(d) ==
    /\ bf[d].pc \in {"started", "loop"}
    /\ ~CtxDone(bf[d].ctx)
    /\ bf[d].fetches < MaxFetches
    /\ \E res \in ChannelMessagesResults :
          bf' = [bf EXCEPT ![d] = DriverFetched(@, res)]
    /\ UNCHANGED <<channelID, ready, cancel, mu, cancelled, nctx, rd, lv, sd, fin, fout>>

DriverFetchReactors(d) ==
    /\ bf[d].pc = "msg"
    /\ bf[d].pm.pc = "find"
    /\ \E res \in MessageReactionsResults(bf[d].pm) :
          bf' = [bf EXCEPT ![d].pm = PMFetch(@, res)]
    /\ UNCHANGED <<channelID, ready, cancel, mu, cancelled, nctx, rd, lv, sd, fin, fout>>

DriverReplaceRemove(d) ==
    /\ bf[d].pc = "msg"
    /\ bf[d].pm.pc = "replace"
    /\ bf[d].pm.rr.pc = "remove"
    /\ \E err \in BOOLEAN : bf' = [bf EXCEPT ![d].pm = PMRemove(@, err)]
    /\ UNCHANGED <<channelID, ready, cancel, mu, cancelled, nctx, rd, lv, sd, fin, fout>>

DriverReplaceAdd(d) ==
    /\ bf[d].pc = "msg"
    /\ bf[d].pm.pc = "replace"
    /\ bf[d].pm.rr.pc = "add"
    /\ \E err \in BOOLEAN : bf' = [bf EXCEPT ![d].pm = PMAdd(@, err)]
    /\ UNCHANGED <<channelID, ready, cancel, mu, cancelled, nctx, rd, lv, sd, fin, fout>>

\* replaced += count; processed++; then the next message of the page or, after
\* the last, the end of the page
MessageDone(t) ==
    LET u == [t EXCEPT !.replaced = @ + t.pm.count, !.processed = @ + 1,
                       !.returned = Append(@, [msg |-> t.pm.msg, count |-> t.pm.count,
                                               rrs |-> t.pm.rrs]),
                       !.pm = NoPM, !.i = @ + 1]
    IN  IF u.i <= Len(u.page) THEN StartMessage(u) ELSE EndOfPage(u)

DriverMessageDone(d) ==
    /\ bf[d].pc = "msg"
    /\ bf[d].pm.pc = "ret"
    /\ bf' = [bf EXCEPT ![d] = MessageDone(bf[d])]
    /\ UNCHANGED <<channelID, ready, cancel, mu, cancelled, nctx, rd, lv, sd, fin, fout>>

\* the Session the bot is connected with
BackfillSession == [fn |-> "OnReady", reactors |-> HistoryReactors]

InitBackfill ==
    /\ channelID = ""
    /\ ready = FALSE
    /\ cancel = 0
    /\ mu = 0
    /\ cancelled = {}
    /\ nctx = 0
    /\ rd = [r \in ReadyTasks |-> IdleOnReady]
    /\ bf = [r \in ReadyTasks |-> NotStarted]
    /\ lv = IdleWorker
    /\ sd = IdleShutdown
    /\ fin = BackfillSession
    /\ fout = NoOutput

\* a run of the bot in which the gateway delivers one Ready event
FirstReady == {1}

NextBackfill ==
    \/ \E r \in FirstReady : OnReadyInitialize(r)
    \/ \E r \in FirstReady : InitLock(r)
    \/ \E r \in FirstReady : InitWriteChannel(r)
    \/ \E r \in FirstReady : InitWriteReady(r)
    \/ \E r \in FirstReady : OnReadyNewContext(r)
    \/ \E r \in FirstReady : OnReadyStoreCancel(r)
    \/ \E r \in FirstReady : OnReadyGo(r)
    \/ ShutdownRead
    \/ ShutdownCancel
    \/ \E d \in FirstReady : DriverCancelled(d)
    \/ \E d \in FirstReady : DriverFetch(d)
    \/ \E d \in FirstReady : DriverFetchReactors(d)
    \/ \E d \in FirstReady : DriverReplaceRemove(d)
    \/ \E d \in FirstReady : DriverReplaceAdd(d)
    \/ \E d \in FirstReady : DriverMessageDone(d)

SpecBackfill == InitBackfill /\ [][NextBackfill]_vars

(***************************************************************************)
(* the classifiers called on their own: IsSkullEmoji, GetEmojiAPIString,   *)
(* IsSkullOnlyMessage                                                      *)
(***************************************************************************)
SkullWord == <<"s", "k", "u", "l", "l">>

\* emoji names: a prefix, a core and a suffix
EmojiNames ==
    LET pre  == { <<>>, <<"d">>, <<"j", "o", "l", "l", "y">>,
                  <<"J", "O", "L", "L", "Y">>, <<"j", "o", "l", "l">> }
        core == { <<>>, SkullWord, <<"S", "K", "U", "L", "L">>, <<"S", "k", "u", "l", "l">>,
                  <<"s", "k", "u", "l">>, <<"p", "a", "r", "t", "y">>, <<Skull>>,
                  <<Crossbones, VS16>>, <<Crossbones>> }
        suf  == { <<>>, <<"s">>, <<VS16>> }
    IN  {p \o c \o x : p \in pre, c \in core, x \in suf}

AnyEmoji == [Name : EmojiNames, ID : {<<>>, <<"7">>, <<"9">>}]

\* values of DISCORD_JOLLYSKULL_ID, "name:id"; Load accepts any non-empty string
SubstituteIDs == {Config.JollySkullID, <<"d">> \o SkullWord \o <<":", "7">>}

\* the pieces message contents are made of
ContentPieces ==
    { <<" ">>, <<"\n", "\t">>, <<Skull>>, <<Crossbones, VS16>>, <<Crossbones>>, <<VS16>>,
      <<"l", "o", "l">>, CustomSkullTag, JollySkullTag,
      <<"<", ":", "o", "k", ":", "7", ">">>, <<"<", "a", ":", "S", "K", "U", "L", "L", ":", "1", ">">>,
      <<"<">> \o SkullWord \o <<">">>, <<"<">>, <<">">>, <<":">> \o SkullWord }

RECURSIVE ContentsUpTo(_)
ContentsUpTo(n) ==
    IF n = 0 THEN {<<>>}
    ELSE ContentsUpTo(n - 1) \cup {c \o p : c \in ContentsUpTo(n - 1), p \in ContentPieces}

ClassifyInputs ==
    [fn : {"IsSkullEmoji"}, emoji : AnyEmoji, JollySkullID : SubstituteIDs]
        \cup [fn : {"GetEmojiAPIString"}, emoji : AnyEmoji]
        \cup [fn : {"IsSkullOnlyMessage"}, content : ContentsUpTo(MaxPieces)]

InitClassify ==
    /\ channelID = "c2"
    /\ ready = TRUE
    /\ cancel = 0
    /\ mu = 0
    /\ cancelled = {}
    /\ nctx = 0
    /\ rd = [r \in ReadyTasks |-> IdleOnReady]
    /\ bf = [r \in ReadyTasks |-> NotStarted]
    /\ lv = IdleWorker
    /\ sd = IdleShutdown
    /\ fin \in ClassifyInputs
    /\ fout = NoOutput

CallIsSkullEmoji ==
    /\ fin.fn = "IsSkullEmoji"
    /\ ~fout.done
    /\ fout' = [done |-> TRUE, val |-> IsSkullEmoji(fin.emoji)]
    /\ UNCHANGED <<channelID, ready, cancel, mu, cancelled, nctx, rd, bf, lv, sd, fin>>

CallGetEmojiAPIString ==
    /\ fin.fn = "GetEmojiAPIString"
    /\ ~fout.done
    /\ fout' = [done |-> TRUE, val |-> GetEmojiAPIString(fin.emoji)]
    /\ UNCHANGED <<channelID, ready, cancel, mu, cancelled, nctx, rd, bf, lv, sd, fin>>

CallIsSkullOnlyMessage ==
    /\ fin.fn = "IsSkullOnlyMessage"
    /\ ~fout.done
    /\ fout' = [done |-> TRUE, val |-> IsSkullOnlyMessage(fin.content)]
    /\ UNCHANGED <<channelID, ready, cancel, mu, cancelled, nctx, rd, bf, lv, sd, fin>>

NextClassify ==
    \/ CallIsSkullEmoji
    \/ CallGetEmojiAPIString
    \/ CallIsSkullOnlyMessage

SpecClassify == InitClassify /\ [][NextClassify]_vars

(***************************************************************************)
(* config.Load                                                             *)
(*                                                                         *)
(* The environment is a record of the six variables Load reads, each a     *)
(* string of code points, <<>> when unset (os.Getenv).  Load returns       *)
(* [err, msg, cfg].                                                        *)
(***************************************************************************)
WhiteSpace == {" ", "\t", "\n", "\r"}

\* strings.TrimSpace
TrimSpace(s) ==
    LET black == {i \in 1..Len(s) : s[i] \notin WhiteSpace}
    IN  IF black = {} THEN <<>>
        ELSE SubSeq(s, CHOOSE i \in black : \A j \in black : i <= j,
                       CHOOSE i \in black : \A j \in black : i >= j)

\* targetUserIDs := os.Getenv("DISCORD_TARGET_USER_IDS"); if targetUserIDs == ""
\* { targetUserIDs = os.Getenv("DISCORD_TARGET_USER_ID") }
TargetUserIDsValue(env) ==
    IF env.DISCORD_TARGET_USER_IDS = <<>>
    THEN env.DISCORD_TARGET_USER_ID
    ELSE env.DISCORD_TARGET_USER_IDS

\* for _, id := range strings.Split(targetUserIDs, ",") { id = strings.TrimSpace(id);
\* if id != "" { cfg.TargetUserIDs = append(cfg.TargetUserIDs, id) ... } }
ParseTargetUserIDs(targetUserIDs) ==
    IF targetUserIDs = <<>> THEN <<>>
    ELSE LET parts == Split(targetUserIDs, <<",">>)
         IN  SelectSeq([i \in 1..Len(parts) |-> TrimSpace(parts[i])], LAMBDA id : id # <<>>)

\* Load with ids the list it has parsed: the Config and the four checks
LoadFrom(env, ids) ==
    LET cfg == [ Token           |-> env.DISCORD_TOKEN,
                 GuildID         |-> env.DISCORD_GUILD_ID,
                 ChannelName     |-> IF env.DISCORD_CHANNEL_NAME = <<>>
                                     THEN <<"j", "o", "l", "l", "y", "p", "o", "s", "t", "i", "n", "g">>
                                     ELSE env.DISCORD_CHANNEL_NAME,
                 TargetUserIDs   |-> ids,
                 TargetUserIDSet |-> {ids[i] : i \in 1..Len(ids)},
                 JollySkullID    |-> env.DISCORD_JOLLYSKULL_ID ]
        fail(msg) == [err |-> TRUE, msg |-> msg, cfg |-> <<>>]
    IN  IF env.DISCORD_TOKEN = <<>> THEN fail("DISCORD_TOKEN is required")
        ELSE IF env.DISCORD_GUILD_ID = <<>> THEN fail("DISCORD_GUILD_ID is required")
        ELSE IF Len(ids) = 0 THEN fail("DISCORD_TARGET_USER_IDS is required")
        ELSE IF env.DISCORD_JOLLYSKULL_ID = <<>> THEN fail("DISCORD_JOLLYSKULL_ID is required")
        ELSE [err |-> FALSE, msg |-> "", cfg |-> cfg]

\* Load with the IDs taken as they stand between the commas
Load_NoTrim(env) ==
    LoadFrom(env, IF TargetUserIDsValue(env) = <<>> THEN <<>>
                  ELSE SelectSeq(Split(TargetUserIDsValue(env), <<",">>), LAMBDA id : id # <<>>))

Load(env) == LoadFrom(env, ParseTargetUserIDs(TargetUserIDsValue(env)))

RECURSIVE StringsUpTo(_, _)
StringsUpTo(alphabet, n) ==
    IF n = 0 THEN {<<>>}
    ELSE StringsUpTo(alphabet, n - 1)
         \cup {Append(s, c) : s \in StringsUpTo(alphabet, n - 1), c \in alphabet}

Environments ==
    [ DISCORD_TOKEN           : {<<>>, <<"t">>},
      DISCORD_GUILD_ID        : {<<>>, <<"g">>},
      DISCORD_CHANNEL_NAME    : {<<>>, <<"c">>},
      DISCORD_JOLLYSKULL_ID   : {<<>>, <<"j">>},
      DISCORD_TARGET_USER_IDS : StringsUpTo({"1", "2", " ", ","}, MaxEnvLen),
      DISCORD_TARGET_USER_ID  : {<<>>, <<"3">>, <<" ">>} ]

InitLoad ==
    /\ channelID = ""
    /\ ready = FALSE
    /\ cancel = 0
    /\ mu = 0
    /\ cancelled = {}
    /\ nctx = 0
    /\ rd = [r \in ReadyTasks |-> IdleOnReady]
    /\ bf = [r \in ReadyTasks |-> NotStarted]
    /\ lv = IdleWorker
    /\ sd = IdleShutdown
    /\ fin \in [fn : {"Load"}, env : Environments]
    /\ fout = NoOutput

CallLoad ==
    /\ fin.fn = "Load"
    /\ ~fout.done
    /\ fout' = [done |-> TRUE, val |-> Load(fin.env)]
    /\ UNCHANGED <<channelID, ready, cancel, mu, cancelled, nctx, rd, bf, lv, sd, fin>>

NextLoad == CallLoad

SpecLoad == InitLoad /\ [][NextLoad]_vars

(***************************************************************************)
(* The bot against a platform that keeps the reactions: one message of the *)
(* monitored channel, the custom skull reactions on it and the bot's own   *)
(* substitute reaction.  fin is the platform's state here.  A remove of a  *)
(* reaction that is there succeeds and takes it away, a remove of one that *)
(* is not there changes nothing and may or may not be reported as an       *)
(* error; an add of the substitute succeeds, also when it is there         *)
(* already; MessageReactions and ChannelMessages return what the platform  *)
(* holds.                                                                  *)
(***************************************************************************)
RaceChannel == "c2"

RaceEmojiAPI == <<"d", "S", "k", "u", "l", "l", ":", "7">>

RaceEvent ==
    [ChannelID |-> RaceChannel, MessageID |-> "m1", UserID |-> "u1", Emoji |-> CustomSkull]

RaceMessageEvent ==
    [ChannelID |-> RaceChannel, ID |-> "m2", Author |-> <<"u1">>, Content |-> <<Skull, " ", Skull>>]

LastCall(t) == t.calls[Len(t.calls)]

\* is the reaction a MessageReactionRemove call names on the message?
ReactionThere(p, call) ==
    /\ call.ChannelID = RaceChannel
    /\ call.MessageID \in DOMAIN p.reactors
    /\ call.Emoji = RaceEmojiAPI
    /\ \E i \in 1..Len(p.reactors[call.MessageID]) : p.reactors[call.MessageID][i] = call.UserID

PlatformRemove(p, call) ==
    IF ReactionThere(p, call)
    THEN [p EXCEPT !.reactors[call.MessageID] = SelectSeq(@, LAMBDA u : u # call.UserID)]
    ELSE p

PlatformAdd(p, call) ==
    IF call.ChannelID = RaceChannel /\ call.MessageID = "m1" /\ call.Emoji = Config.JollySkullID
    THEN [p EXCEPT !.substitute = TRUE]
    ELSE p

\* the channel's history: the one message with its reaction summaries
PlatformMessages(p, ch, beforeID) ==
    IF ch = RaceChannel /\ beforeID = ""
    THEN << [ ID |-> "m1", Timestamp |-> 20250601,
              Reactions |-> (IF p.reactors["m1"] # <<>> THEN <<CustomSkull>> ELSE <<>>)
                            \o (IF p.substitute THEN <<JollySkull>> ELSE <<>>) ] >>
    ELSE <<>>

\* the outcomes of ReplaceReaction's remove by the task t: the task after it
\* and the platform after it
RemoveOutcomes(t) ==
    { [task |-> ReplaceRemove(t, err),
       platform |-> IF err THEN fin ELSE PlatformRemove(fin, LastCall(ReplaceRemove(t, err)))] :
         err \in {e \in BOOLEAN : e => ~ReactionThere(fin, LastCall(ReplaceRemove(t, e)))} }

\* the outcome of ReplaceReaction's add by the task t
AddOutcome(t) ==
    [task |-> ReplaceAdd(t, FALSE), platform |-> PlatformAdd(fin, LastCall(ReplaceAdd(t, FALSE)))]

\* the target user puts the skull on the message
UserReacts ==
    /\ ~fin.reacted
    /\ fin' = [fin EXCEPT !.reactors["m1"] = Append(@, "u1"), !.reacted = TRUE]
    /\ UNCHANGED <<channelID, ready, cancel, mu, cancelled, nctx, rd, bf, lv, sd, fout>>

\* the gateway dispatches the reaction-add event (after a resume possibly
\* once more)
RaceOnReactionAdd ==
    /\ fin.reacted
    /\ OnReactionAdd(RaceEvent)

RaceLiveRemove ==
    /\ lv.pc = "replace"
    /\ lv.rr.pc = "remove"
    /\ \E o \in RemoveOutcomes(lv) :
          /\ lv' = AfterReplace(o.task)
          /\ fin' = o.platform
    /\ UNCHANGED <<channelID, ready, cancel, mu, cancelled, nctx, rd, bf, sd, fout>>

RaceLiveAdd ==
    /\ lv.pc = "replace"
    /\ lv.rr.pc = "add"
    /\ lv' = AfterReplace(AddOutcome(lv).task)
    /\ fin' = AddOutcome(lv).platform
    /\ UNCHANGED <<channelID, ready, cancel, mu, cancelled, nctx, rd, bf, sd, fout>>

RaceDriverFetch(d) ==
    /\ bf[d].pc \in {"started", "loop"}
    /\ ~CtxDone(bf[d].ctx)
    /\ bf' = [bf EXCEPT ![d] =
                 DriverFetched(@, [err |-> FALSE,
                                   messages |-> PlatformMessages(fin, channelID, bf[d].beforeID)])]
    /\ UNCHANGED <<channelID, ready, cancel, mu, cancelled, nctx, rd, lv, sd, fin, fout>>

RaceDriverFetchReactors(d) ==
    /\ bf[d].pc = "msg"
    /\ bf[d].pm.pc = "find"
    /\ \E res \in MessageReactionsResults(bf[d].pm) :
          /\ ~res.err
          /\ bf' = [bf EXCEPT ![d].pm = PMFetch(@, res)]
    /\ UNCHANGED <<channelID, ready, cancel, mu, cancelled, nctx, rd, lv, sd, fin, fout>>

RaceDriverRemove(d) ==
    /\ bf[d].pc = "msg"
    /\ bf[d].pm.pc = "replace"
    /\ bf[d].pm.rr.pc = "remove"
    /\ \E o \in RemoveOutcomes(bf[d].pm) :
          /\ bf' = [bf EXCEPT ![d].pm = PMAfterReplace(o.task)]
          /\ fin' = o.platform
    /\ UNCHANGED <<channelID, ready, cancel, mu, cancelled, nctx, rd, lv, sd, fout>>

RaceDriverAdd(d) ==
    /\ bf[d].pc = "msg"
    /\ bf[d].pm.pc = "replace"
    /\ bf[d].pm.rr.pc = "add"
    /\ bf' = [bf EXCEPT ![d].pm = PMAfterReplace(AddOutcome(bf[d].pm).task)]
    /\ fin' = AddOutcome(bf[d].pm).platform
    /\ UNCHANGED <<channelID, ready, cancel, mu, cancelled, nctx, rd, lv, sd, fout>>

InitRace ==
    /\ channelID = ""
    /\ ready = FALSE
    /\ cancel = 0
    /\ mu = 0
    /\ cancelled = {}
    /\ nctx = 0
    /\ rd = [r \in ReadyTasks |-> IdleOnReady]
    /\ bf = [r \in ReadyTasks |-> NotStarted]
    /\ lv = IdleWorker
    /\ sd = IdleShutdown
    /\ fin \in [ fn : {"Platform"}, reactors : [{"m1"} -> {<<>>, <<"u3">>}],
                 substitute : {FALSE}, reacted : {FALSE} ]
    /\ fout = NoOutput

NextRace ==
    \/ \E r \in FirstReady : OnReadyInitialize(r)
    \/ \E r \in FirstReady : InitLock(r)
    \/ \E r \in FirstReady : InitWriteChannel(r)
    \/ \E r \in FirstReady : InitWriteReady(r)
    \/ \E r \in FirstReady : OnReadyNewContext(r)
    \/ \E r \in FirstReady : OnReadyStoreCancel(r)
    \/ \E r \in FirstReady : OnReadyGo(r)
    \/ ShutdownRead
    \/ ShutdownCancel
    \/ UserReacts
    \/ RaceOnReactionAdd
    \/ RaceLiveRemove
    \/ RaceLiveAdd
    \/ OnMessageCreate(RaceMessageEvent)
    \/ LiveDelete
    \/ LiveReturn
    \/ \E d \in FirstReady : DriverCancelled(d)
    \/ \E d \in FirstReady : RaceDriverFetch(d)
    \/ \E d \in FirstReady : RaceDriverFetchReactors(d)
    \/ \E d \in FirstReady : RaceDriverRemove(d)
    \/ \E d \in FirstReady : RaceDriverAdd(d)
    \/ \E d \in FirstReady : DriverMessageDone(d)

SpecRace == InitRace /\ [][NextRace]_vars

(***************************************************************************)
(* The backfill's counters over a long history: pages of messages newer    *)
(* than the cutoff and without reactions, so that each message is one pass  *)
(* of the range loop with ProcessMessageReactions returning 0 at once.  A   *)
(* step is one pass of the outer loop: the fetch, the range loop over the  *)
(* page and the end of the page.  fout is the goroutine.                   *)
(***************************************************************************)
PageLengths == {1, 99, 100}

PlainPage(n) ==
    [k \in 1..n |-> [ID |-> ToString(k), Timestamp |-> 20250601, Reactions |-> <<>>]]

\* the range loop from the message it is at to the end of the page
RECURSIVE RangeLoop(_)
RangeLoop(t) ==
    IF t.pc = "msg" /\ t.pm.pc = "ret" THEN RangeLoop(MessageDone(t)) ELSE t

InitProgress ==
    /\ channelID = "c2"
    /\ ready = TRUE
    /\ cancel = 0
    /\ mu = 0
    /\ cancelled = {}
    /\ nctx = 0
    /\ rd = [r \in ReadyTasks |-> IdleOnReady]
    /\ bf = [r \in ReadyTasks |-> NotStarted]
    /\ lv = IdleWorker
    /\ sd = IdleShutdown
    /\ fin = [fn |-> "ProcessHistoricalMessages"]
    /\ fout = NewDriver(0)

CallLoopPass ==
    /\ fin.fn = "ProcessHistoricalMessages"
    /\ fout.pc \in {"started", "loop"}
    /\ fout.fetches < MaxPages
    /\ \E n \in PageLengths :
          fout' = RangeLoop(DriverFetched(fout, [err |-> FALSE, messages |-> PlainPage(n)]))
    /\ UNCHANGED <<channelID, ready, cancel, mu, cancelled, nctx, rd, bf, lv, sd, fin>>

NextProgress == CallLoopPass

SpecProgress == InitProgress /\ [][NextProgress]_vars

(***************************************************************************)
(* ProcessHistoricalMessages against a channel with a finite history       *)
(*                                                                         *)
(* fin.session tells the Session the bot is connected with: "history"      *)
(* serves fin.history newest first in disjoint pages and honours beforeID; *)
(* "mock" is the test double with messagePages nil, whose ChannelMessages  *)
(* returns m.messages whatever beforeID is.  Neither fails.                *)
(***************************************************************************)
MaxHistory == 4      \* messages in the history of the channel

H5 == [ID |-> "h5", Timestamp |-> 20241101, Reactions |-> <<UnicodeSkull>>]
H6 == [ID |-> "h6", Timestamp |-> 20250301, Reactions |-> <<Thumbs>>]

\* the messages a channel may hold, newest first
Timeline == <<H4, H6, H2, H3, H5>>

RECURSIVE SubLists(_)
SubLists(l) ==
    IF l = <<>> THEN {<<>>}
    ELSE LET r == SubLists(Tail(l))
         IN  r \cup {<<Head(l)>> \o x : x \in r}

Histories == {h \in SubLists(Timeline) : Len(h) <= MaxHistory}

\* the messages of h older than the message beforeID, all of h for ""
Older(h, beforeID) ==
    IF beforeID = "" THEN h
    ELSE LET hits == {i \in 1..Len(h) : h[i].ID = beforeID}
         IN  IF hits = {} THEN <<>>
             ELSE SubSeq(h, (CHOOSE i \in hits : TRUE) + 1, Len(h))

\* what s.ChannelMessages(ch, limit, beforeID, "", "") may return
SessionMessages(session, limit, beforeID) ==
    IF session.session = "mock" THEN {session.history}
    ELSE LET rest == Older(session.history, beforeID)
         IN  IF rest = <<>> THEN {<<>>}
             ELSE {SubSeq(rest, 1, n) : n \in {k \in 1..Len(rest) : k <= limit}}

HistorySessions ==
    [fn : {"OnReady"}, reactors : {HistoryReactors}, session : {"history"}, history : Histories]
        \cup [fn : {"OnReady"}, reactors : {HistoryReactors}, session : {"mock"},
              history : {<<H4>>, <<H4, H6>>, <<H6, H3>>}]

InitHistory ==
    /\ channelID = ""
    /\ ready = FALSE
    /\ cancel = 0
    /\ mu = 0
    /\ cancelled = {}
    /\ nctx = 0
    /\ rd = [r \in ReadyTasks |-> IdleOnReady]
    /\ bf = [r \in ReadyTasks |-> NotStarted]
    /\ lv = IdleWorker
    /\ sd = IdleShutdown
    /\ fin \in HistorySessions
    /\ fout = NoOutput

\* the fetch of the next page from the session fin
HistoryFetch(d) ==
    /\ bf[d].pc \in {"started", "loop"}
    /\ ~CtxDone(bf[d].ctx)
    /\ bf[d].fetches < (IF fin.session = "mock" THEN MaxFetches ELSE MaxHistory + 1)
    /\ \E p \in SessionMessages(fin, HistoryLimit, bf[d].beforeID) :
          bf' = [bf EXCEPT ![d] = DriverFetched(@, [err |-> FALSE, messages |-> p])]
    /\ UNCHANGED <<channelID, ready, cancel, mu, cancelled, nctx, rd, lv, sd, fin, fout>>

\* a step of the goroutine running ProcessHistoricalMessages
HistoryDriverStep(d) ==
    \/ DriverCancelled(d)
    \/ HistoryFetch(d)
    \/ DriverFetchReactors(d)
    \/ DriverReplaceRemove(d)
    \/ DriverReplaceAdd(d)
    \/ DriverMessageDone(d)

NextHistory ==
    \/ \E r \in FirstReady : OnReadyInitialize(r)
    \/ \E r \in FirstReady : InitLock(r)
    \/ \E r \in FirstReady : InitWriteChannel(r)
    \/ \E r \in FirstReady : InitWriteReady(r)
    \/ \E r \in FirstReady : OnReadyNewContext(r)
    \/ \E r \in FirstReady : OnReadyStoreCancel(r)
    \/ \E r \in FirstReady : OnReadyGo(r)
    \/ ShutdownRead
    \/ ShutdownCancel
    \/ \E d \in FirstReady : DriverCancelled(d)
    \/ \E d \in FirstReady : HistoryFetch(d)
    \/ \E d \in FirstReady : DriverFetchReactors(d)
    \/ \E d \in FirstReady : DriverReplaceRemove(d)
    \/ \E d \in FirstReady : DriverReplaceAdd(d)
    \/ \E d \in FirstReady : DriverMessageDone(d)

SpecHistory == InitHistory /\ [][NextHistory]_vars

\* the goroutine is scheduled and its Session calls return
SpecHistoryFair == SpecHistory /\ \A d \in FirstReady : WF_vars(HistoryDriverStep(d))

(***************************************************************************)
(* Properties                                                              *)
(***************************************************************************)
\* the tasks that are in, or have just left, a ReplaceReaction invocation
RRTasks == {t \in {lv} : t.rr.pc # "none"}

\* the channel IDs Initialize can resolve
ResolvedChannelIDs ==
    {FindChannelByName(l, Config.ChannelName) : l \in GuildChannelLists} \ {""}

Published(r) == rd[r].pc \in {"c_lock", "c_write", "go", "done"}

\* C1: when the RemoveReaction call of a ReplaceReaction invocation fails, the
\* invocation returns false at once and issues no AddReaction call.
C1_RemoveFailureStops ==
    \A t \in RRTasks :
        t.rr.rmErr = "err" =>
            /\ t.rr.pc = "ret"
            /\ t.rr.result = FALSE
            /\ t.rr.addErr = "none"
            /\ \A i \in 1..Len(t.calls) : t.calls[i].op # "AddReaction"

C1_Witness ==
    /\ lv.pc = "done"
    /\ lv.rr.pc = "ret"
    /\ lv.rr.rmErr = "err"
    /\ Len(lv.calls) = 1

\* C2: when the removal succeeded and the AddReaction call fails, the invocation
\* returns false having issued exactly the one remove and the one add: the add
\* is not retried and nothing is issued to restore the removed reaction.
C2_AddFailureNoRetryNoRollback ==
    \A t \in RRTasks :
        (t.rr.rmErr = "nil" /\ t.rr.addErr = "err") =>
            /\ t.rr.pc = "ret"
            /\ t.rr.result = FALSE
            /\ Len(t.calls) = 2
            /\ t.calls[1].op = "RemoveReaction"
            /\ t.calls[2].op = "AddReaction"
            /\ t.calls[2].Emoji = Config.JollySkullID

C2_Witness ==
    /\ lv.pc = "done"
    /\ lv.rr.pc = "ret"
    /\ lv.rr.rmErr = "nil"
    /\ lv.rr.addErr = "err"
    /\ lv.rr.result = FALSE

C4_ShouldProcessReactionIff ==
    (lv.pc # "idle" /\ lv.kind = "reaction") =>
        /\ lv.snap = [ready |-> ready, channelID |-> channelID]
        /\ lv.ok = ( /\ ready
                     /\ lv.ev.ChannelID = channelID
                     /\ lv.ev.UserID \in Config.TargetUserIDSet
                     /\ IsSkullEmoji(lv.ev.Emoji) )

\* the four conditions hold and the verdict is true (second target user, custom emoji)
C4_Witness ==
    /\ lv.kind = "reaction"
    /\ lv.ok
    /\ lv.ev.UserID = "u2"
    /\ lv.ev.Emoji = CustomSkull

\* C5: the verdict of ShouldDeleteMessage on an event is true iff ready is true,
\* the message's channel is channelID, the author is non-nil and a target user,
\* and the content is skull-only; with a nil author it is false.
C5_ShouldDeleteMessageIff ==
    (lv.pc # "idle" /\ lv.kind = "message") =>
        /\ lv.snap = [ready |-> ready, channelID |-> channelID]
        /\ lv.ok = ( /\ ready
                     /\ lv.ev.ChannelID = channelID
                     /\ lv.ev.Author # <<>>
                     /\ \E u \in Config.TargetUserIDSet : lv.ev.Author = <<u>>
                     /\ IsSkullOnlyMessage(lv.ev.Content) )
        /\ lv.ev.Author = <<>> => lv.ok = FALSE

\* a skull-only message in the channel of a ready bot, with a nil author: verdict false
C5_Witness ==
    /\ lv.kind = "message"
    /\ lv.pc = "done"
    /\ lv.ev.Author = <<>>
    /\ ready
    /\ lv.ev.ChannelID = channelID
    /\ IsSkullOnlyMessage(lv.ev.Content)
    /\ ~lv.ok

\* C6: a live handler issues a Session call only for an event whose filter saw
\* ready = true, which is after some Initialize published it: an event filtered
\* before that is dropped without any RemoveReaction, AddReaction or
\* DeleteMessage call.
C6_NoCallBeforeReady ==
    (lv.pc \in {"replace", "delete"} \/ lv.calls # <<>>) =>
        /\ lv.snap.ready
        /\ ready
        /\ \E r \in ReadyTasks : Published(r)

\* an event that would qualify was filtered before ready was published, and was
\* dropped with no call although the bot has become ready since
C6_Witness ==
    /\ lv.pc = "done"
    /\ lv.kind = "reaction"
    /\ ~lv.snap.ready
    /\ lv.calls = <<>>
    /\ ready
    /\ ShouldProcessReaction(ready, channelID, lv.ev)

\* C7: ready never changes from true to false, and channelID, once resolved,
\* never changes value.
C7_ReadyAndChannelImmutable ==
    [][ /\ ready => ready'
        /\ channelID # "" => channelID' = channelID ]_vars

\* C8: channelID and ready are written while mu is held exclusively, and whoever
\* reads (ready, channelID) under the shared lock, now or in the snapshot a
\* filter took, sees with ready = true a channelID that Initialize resolved.
C8_AtomicPublish ==
    /\ \A r \in ReadyTasks : rd[r].pc \in {"w_ch", "w_ready", "c_write"} => mu = r
    /\ (mu = 0 /\ ready) => channelID \in ResolvedChannelIDs
    /\ (lv.pc # "idle" /\ lv.snap.ready) => lv.snap.channelID \in ResolvedChannelIDs

\* a filter took its snapshot right after the first publication
C8_Witness ==
    /\ lv.pc # "idle"
    /\ lv.snap.ready
    /\ lv.snap.channelID = "c3"
    /\ \E r \in ReadyTasks : rd[r].pc = "c_lock"

\* C9: an OnReady whose Initialize failed has returned: it created no context
\* and started no backfill, and the failing Initialize changed neither ready
\* nor channelID nor the cancel func; as long as no Initialize has succeeded the
\* bot is not ready and has no channelID.
C9_FailedInitialize ==
    /\ [](\A r \in ReadyTasks :
            rd[r].err => /\ rd[r].pc = "failed"
                         /\ rd[r].ctx = 0
                         /\ bf[r].pc = "none")
    /\ []((\A r \in ReadyTasks : ~Published(r) /\ rd[r].pc # "w_ready")
            => (~ready /\ cancel = 0 /\ nctx = 0))
    /\ [][\A r \in ReadyTasks :
            (rd'[r].err /\ ~rd[r].err) =>
                /\ ready' = ready
                /\ channelID' = channelID
                /\ cancel' = cancel
                /\ nctx' = nctx
                /\ bf' = bf]_vars
    /\ [][\A r \in ReadyTasks : rd[r].err => rd'[r] = rd[r]]_vars

\* every Ready event so far failed in Initialize, the last one on a channel list
\* without a text channel of the configured name
C9_Witness ==
    /\ \A r \in ReadyTasks : rd[r].pc = "failed" /\ rd[r].err
    /\ ~ready
    /\ channelID = ""

\* C10: FindChannelByName returns the ID of the first channel, in list order,
\* whose name is the requested name and whose type is text, and "" when there is
\* no such channel.
C10_FirstTextChannel ==
    fout.done =>
        LET matches == {i \in 1..Len(fin.channels) :
                            /\ fin.channels[i].Name = fin.name
                            /\ fin.channels[i].Type = "text"}
        IN  /\ matches = {} => fout.val = ""
            /\ matches # {} =>
                  \E i \in matches :
                      /\ \A j \in matches : i <= j
                      /\ fout.val = fin.channels[i].ID

\* a voice channel of the name comes first, then two text channels of the name
C10_Witness ==
    /\ fout.done
    /\ Len(fin.channels) = 3
    /\ fin.channels[1].Name = fin.name /\ fin.channels[1].Type = "voice"
    /\ fin.channels[2].Name = fin.name /\ fin.channels[2].Type = "text"
    /\ fin.channels[3].Name = fin.name /\ fin.channels[3].Type = "text"
    /\ fin.channels[1].ID = "c1"
    /\ fin.channels[2].ID = "c2"
    /\ fin.channels[3].ID = "c1"
    /\ fout.val = "c2"

\* the reactor list the Session serves to findTargetUsersWithReaction called on its own
FindList == SessionReactors(fout.ft.MessageID)

\* C11: with a Session that lists after the last-seen ID and no failed fetch,
\* findTargetUsersWithReaction returns exactly the target users among all the
\* reactors, in list order, whichever page they are on.
C11_AllTargetsFound ==
    (fin.fn = "findTargetUsersWithReaction" /\ fout.ft.pc = "ret" /\ ~fout.ft.failed)
        => fout.ft.found = SelectSeq(FindList, IsTargetUser)

\* 250 reactors served as pages of 100, 100 and 50, one target opening the
\* second page and one opening the third
C11_Witness ==
    /\ fin.fn = "findTargetUsersWithReaction"
    /\ fout.ft.pc = "ret"
    /\ ~fout.ft.failed
    /\ Len(FindList) = MaxReactors
    /\ Len(fout.calls) = 3
    /\ FindList[PageSize + 1] = "u1"
    /\ FindList[2 * PageSize + 1] = "u2"
    /\ fout.ft.found = <<"u1", "u2">>

\* C12: every fetch asks for 100 users; the first passes the empty cursor and
\* each later one the last user ID of the page before, which was a full page;
\* the call returns at the first page that is empty or short, so that n
\* reactors cost n \div 100 + 1 fetches when no fetch fails.
C12_Pagination ==
    fin.fn = "findTargetUsersWithReaction" =>
        /\ \A k \in 1..Len(fout.calls) :
              /\ fout.calls[k].op = "MessageReactions"
              /\ fout.calls[k].Limit = PageSize
              /\ (k - 1) * PageSize <= Len(FindList)
              /\ fout.calls[k].After = IF k = 1 THEN "" ELSE FindList[(k - 1) * PageSize]
        /\ fout.ft.pc = "fetch" => Len(fout.calls) * PageSize <= Len(FindList)
        /\ (fout.ft.pc = "ret" /\ ~fout.ft.failed)
              => Len(fout.calls) = (Len(FindList) \div PageSize) + 1

\* 200 reactors: two full pages, then the empty page that ends the list
C12_Witness ==
    /\ fin.fn = "findTargetUsersWithReaction"
    /\ fout.ft.pc = "ret"
    /\ ~fout.ft.failed
    /\ Len(FindList) = 2 * PageSize
    /\ Len(fout.calls) = 3
    /\ fout.calls[3].After = FindList[2 * PageSize]

\* C13: a failed fetch ends findTargetUsersWithReaction: it makes no further
\* fetch, and what it returns is the target users of the pages fetched before
\* the failure, which is the empty list when the first fetch fails.
C13_FetchFailureKeepsPartial ==
    [][ fin.fn = "findTargetUsersWithReaction" =>
          /\ fout.ft.failed => fout' = fout
          /\ fout'.ft.failed =>
                /\ fout'.ft.pc = "ret"
                /\ fout'.ft.found =
                      SelectSeq(SubSeq(FindList, 1, (Len(fout'.calls) - 1) * PageSize),
                                IsTargetUser)
                /\ Len(fout'.calls) = 1 => fout'.ft.found = <<>> ]_vars

\* the second fetch fails after a first page that held a target user
C13_Witness ==
    /\ fin.fn = "findTargetUsersWithReaction"
    /\ fout.ft.failed
    /\ fout.ft.pc = "ret"
    /\ Len(fout.calls) = 2
    /\ fout.ft.found = <<"u1">>
    /\ Len(SelectSeq(FindList, IsTargetUser)) = 2

\* the (emoji, user) pairs the findTargetUsersWithReaction calls returned, in order
RECURSIVE FoundPairs(_)
FoundPairs(finds) ==
    IF finds = <<>> THEN <<>>
    ELSE [k \in 1..Len(finds[1].users) |->
             [Emoji |-> finds[1].Emoji, UserID |-> finds[1].users[k]]]
         \o FoundPairs(Tail(finds))

CallsOf(calls, op) == SelectSeq(calls, LAMBDA c : c.op = op)

\* C14: ProcessMessageReactions fetches reactors for the skull-class summaries
\* of the message and for no other, calls ReplaceReaction once for each user
\* each fetch returned, and returns how many of those calls returned true; a
\* message without a skull-class summary yields 0 and no Session call.
C14_ProcessMessageReactions ==
    fin.fn = "ProcessMessageReactions" /\ fout.pc = "ret" =>
        LET skulls == SelectSeq(fout.msg.Reactions, IsSkullEmoji)
            removes == CallsOf(fout.calls, "RemoveReaction")
        IN  /\ Len(fout.finds) = Len(skulls)
            /\ \A k \in 1..Len(skulls) :
                  /\ fout.finds[k].Emoji = skulls[k]
                  /\ fout.finds[k].failed
                        \/ fout.finds[k].users
                              = SelectSeq(SessionReactors(fout.msg.ID), IsTargetUser)
            /\ \A k \in 1..Len(fout.calls) :
                  \/ fout.calls[k].op = "AddReaction"
                  \/ \E e \in {skulls[j] : j \in 1..Len(skulls)} :
                        fout.calls[k].Emoji = GetEmojiAPIString(e)
            /\ [k \in 1..Len(fout.rrs) |->
                   [Emoji |-> fout.rrs[k].Emoji, UserID |-> fout.rrs[k].UserID]]
                  = FoundPairs(fout.finds)
            /\ [k \in 1..Len(removes) |-> [Emoji |-> removes[k].Emoji,
                                           UserID |-> removes[k].UserID]]
                  = [k \in 1..Len(fout.rrs) |->
                        [Emoji |-> GetEmojiAPIString(fout.rrs[k].Emoji),
                         UserID |-> fout.rrs[k].UserID]]
            /\ fout.count = Cardinality({k \in 1..Len(fout.rrs) : fout.rrs[k].result})
            /\ skulls = <<>> => fout.count = 0 /\ fout.calls = <<>>

\* a thumbs-up and a skull summary, two target users among the reactors, one
\* replacement succeeding and one failing
C14_Witness ==
    /\ fin.fn = "ProcessMessageReactions"
    /\ fout.pc = "ret"
    /\ fout.msg.Reactions = <<Thumbs, UnicodeSkull>>
    /\ Len(fout.rrs) = 2
    /\ fout.rrs[1].result
    /\ ~fout.rrs[2].result
    /\ fout.count = 1

\* a goroutine that has returned takes no further step
DriverStopped(d) == bf[d].pc = "done" => bf'[d] = bf[d]

CutoffLog == "reached messages before cutoff"

CancelledLog == "historical processing cancelled"

CompleteLog == "historical processing complete"

\* C15: the messages of a page are handled in the order returned; a message is
\* reconciled only if it and every message before it in the page is not before
\* the cutoff (a timestamp equal to the cutoff is not before it); the first
\* message strictly before the cutoff ends the goroutine, which has then
\* reconciled exactly the messages fetched ahead of it and fetches no more.
C15_CutoffStops ==
    [][ \A d \in FirstReady :
          /\ DriverStopped(d)
          /\ bf'[d].pc = "msg" =>
                /\ bf'[d].pm.msg = bf'[d].page[bf'[d].i]
                /\ \A j \in 1..bf'[d].i : bf'[d].page[j].Timestamp >= HistoricalCutoff
          /\ (bf'[d].pc = "done" /\ bf'[d].lastFetch = "page") =>
                \/ bf'[d].log = CancelledLog
                \/ /\ bf'[d].log = CutoffLog
                   /\ bf'[d].pm = NoPM
                   /\ bf'[d].page[bf'[d].i].Timestamp < HistoricalCutoff
                   /\ \A j \in 1..(bf'[d].i - 1) :
                         bf'[d].page[j].Timestamp >= HistoricalCutoff
                   /\ bf'[d].processed
                         = bf'[d].fetched - (Len(bf'[d].page) - bf'[d].i + 1) ]_vars

\* the page [2025-06-01, 2024-12-01]: one fetch, one message processed
C15_Witness ==
    /\ bf[1].pc = "done"
    /\ bf[1].log = CutoffLog
    /\ bf[1].page = <<H1, H3>>
    /\ bf[1].fetches = 1
    /\ bf[1].processed = 1

\* C16: a goroutine whose context is cancelled before its loop starts returns
\* at the first test of ctx.Done(): no ChannelMessages call, no message
\* processed, no remove or add.
C16_CancelledBeforeStart ==
    [][ \A d \in FirstReady :
          /\ DriverStopped(d)
          /\ (bf[d].pc = "started" /\ bf[d].ctx \in cancelled) =>
                \/ bf'[d] = bf[d]
                \/ /\ bf'[d].pc = "done"
                   /\ bf'[d].log = CancelledLog
                   /\ bf'[d].fetches = 0
                   /\ bf'[d].processed = 0
                   /\ bf'[d].replaced = 0
                   /\ bf'[d].pm = NoPM ]_vars

C16_Witness ==
    /\ bf[1].pc = "done"
    /\ bf[1].log = CancelledLog
    /\ bf[1].fetches = 0
    /\ bf[1].processed = 0

\* C17: with the context cancelled, a goroutine inside a page goes on with the
\* page and is not ended by the cancellation; at the top of the loop it makes
\* no fetch and returns, so that a cancelled goroutine has processed every
\* message it fetched.
C17_CancelOnlyAtLoopTop ==
    [][ \A d \in FirstReady :
          /\ (bf[d].pc = "msg" /\ bf[d].ctx \in cancelled /\ bf'[d] # bf[d]) =>
                /\ bf'[d].log # CancelledLog
                /\ bf'[d].fetches = bf[d].fetches
                /\ \/ bf'[d].pc = "msg"
                   \/ bf'[d].pc = "loop" /\ bf[d].i = Len(bf[d].page)
                   \/ bf'[d].log = CutoffLog
          /\ (bf[d].pc = "loop" /\ bf[d].ctx \in cancelled /\ bf'[d] # bf[d]) =>
                /\ bf'[d].pc = "done"
                /\ bf'[d].log = CancelledLog
                /\ bf'[d].fetches = bf[d].fetches
          /\ (bf'[d].pc = "done" /\ bf'[d].log = CancelledLog) =>
                /\ bf'[d].page = <<>>
                /\ bf'[d].pm = NoPM
                /\ bf'[d].processed = bf'[d].fetched ]_vars

\* the context is cancelled and the goroutine is replacing a reaction on the
\* second message of the page it had fetched
C17_Witness ==
    /\ bf[1].pc = "msg"
    /\ bf[1].ctx \in cancelled
    /\ bf[1].page = <<H4, H2>>
    /\ bf[1].i = 2
    /\ bf[1].pm.pc = "replace"

\* C18: a ChannelMessages call that fails or returns no message ends the
\* goroutine: it is not retried, no later page is fetched and no Session call
\* follows.
C18_FetchEndTerminates ==
    [][ \A d \in FirstReady :
          /\ DriverStopped(d)
          /\ bf'[d].pc \notin {"none", "started"}
                => (bf'[d].lastFetch \in {"err", "empty"} =>
                      /\ bf'[d].pc = "done"
                      /\ bf'[d].log = CompleteLog
                      /\ bf'[d].pm = NoPM
                      /\ bf'[d].processed = bf'[d].fetched) ]_vars

\* the second fetch fails after a page of two messages
C18_Witness ==
    /\ bf[1].pc = "done"
    /\ bf[1].lastFetch = "err"
    /\ bf[1].fetches = 2
    /\ bf[1].processed = 2

\* C19: Shutdown never calls a nil cancel func; the call that read no cancel
\* func changes nothing, the call that read one sets the cancellation signal of
\* its context and changes nothing else, and a call on a context that is
\* already cancelled changes nothing.
C19_ShutdownNeverFaults ==
    [][ /\ 0 \notin cancelled'
        /\ (sd.pc = "idle" /\ sd'.pc = "cancel") =>
              /\ sd'.cancel = cancel
              /\ UNCHANGED <<channelID, ready, cancel, mu, cancelled, nctx, rd, bf, lv>>
        /\ (sd.pc = "cancel" /\ sd'.pc = "idle") =>
              /\ UNCHANGED <<channelID, ready, cancel, mu, nctx, rd, bf, lv>>
              /\ sd.cancel = 0 => cancelled' = cancelled
              /\ sd.cancel # 0 => cancelled' = cancelled \cup {sd.cancel}
              /\ sd.cancel \in cancelled => cancelled' = cancelled ]_vars

\* a second Shutdown about to call the cancel func of a started backfill whose
\* context the first Shutdown has cancelled
C19_Witness ==
    /\ sd.pc = "cancel"
    /\ sd.cancel # 0
    /\ sd.cancel \in cancelled
    /\ \E r \in ReadyTasks : bf[r].pc = "started" /\ bf[r].ctx = sd.cancel

\* C20: at most one ProcessHistoricalMessages goroutine is ever started and at
\* most one context, with its cancel func, is ever created.
C20_SingleDriver ==
    /\ Cardinality({r \in ReadyTasks : bf[r].pc # "none"}) <= 1
    /\ nctx <= 1

\* C21: channelID, ready and cancel are written only by the holder of the
\* exclusive lock, and b.channelID is read only under the shared lock, so that
\* no read of it (the one ReplaceReaction makes for its remove and its add)
\* happens while an OnReady task holds the exclusive lock.
C21_LockDiscipline ==
    [][ /\ (channelID' # channelID \/ ready' # ready \/ cancel' # cancel) => mu # 0
        /\ ( /\ Len(lv'.calls) > Len(lv.calls)
             /\ lv'.calls[Len(lv'.calls)].op \in {"RemoveReaction", "AddReaction"} )
              => mu = 0 ]_vars

\* s contains the word w
HasWord(s, w) ==
    \E i \in 1..Len(s) : i + Len(w) - 1 <= Len(s) /\ SubSeq(s, i, i + Len(w) - 1) = w

\* C25: IsSkullEmoji is true exactly when the name is one of the three unicode
\* skull glyphs, or the lower-cased name contains "skull" and does not contain
\* "jollyskull"; descriptors that differ only in their ID get the same answer.
C25_IsSkullEmojiIff ==
    (fin.fn = "IsSkullEmoji" /\ fout.done) =>
        LET name == fin.emoji.Name
            lower == [i \in 1..Len(name) |-> LowerRune(name[i])]
        IN  /\ fout.val = ( \/ name \in {<<Skull>>, <<Crossbones, VS16>>, <<Crossbones>>}
                            \/ /\ HasWord(lower, SkullWord)
                               /\ ~HasWord(lower, <<"j", "o", "l", "l", "y">> \o SkullWord) )
            /\ \A id \in {<<>>, <<"7">>, <<"9">>} :
                  IsSkullEmoji([Name |-> name, ID |-> id]) = fout.val

\* an upper-case custom name without ID
C25_Witness ==
    /\ fin.fn = "IsSkullEmoji"
    /\ fout.done
    /\ fin.emoji = [Name |-> <<"d", "S", "K", "U", "L", "L", "s">>, ID |-> <<>>]
    /\ fout.val

\* the name of a substitute identifier "name:id"
SubstituteName(id) ==
    LET colons == {i \in 1..Len(id) : id[i] = ":"}
    IN  IF colons = {} THEN id
        ELSE SubSeq(id, 1, (CHOOSE i \in colons : \A j \in colons : i <= j) - 1)

\* C26: whatever substitute identifier is configured, IsSkullEmoji is false on
\* the substitute emoji's own name.
C26_SubstituteNeverSkull ==
    (fin.fn = "IsSkullEmoji" /\ fout.done
        /\ fin.emoji.Name = SubstituteName(fin.JollySkullID)) => ~fout.val

\* C28: GetEmojiAPIString is the name, followed by ":" and the ID when the ID
\* is not empty.
C28_EmojiAPIString ==
    (fin.fn = "GetEmojiAPIString" /\ fout.done) =>
        LET name == fin.emoji.Name
            id == fin.emoji.ID
        IN  /\ SubSeq(fout.val, 1, Len(name)) = name
            /\ id = <<>> => Len(fout.val) = Len(name)
            /\ id # <<>> =>
                  /\ Len(fout.val) = Len(name) + 1 + Len(id)
                  /\ fout.val[Len(name) + 1] = ":"
                  /\ SubSeq(fout.val, Len(name) + 2, Len(fout.val)) = id

C28_Witness ==
    /\ fin.fn = "GetEmojiAPIString"
    /\ fout.done
    /\ fin.emoji = [Name |-> <<"d">> \o SkullWord, ID |-> <<"7">>]
    /\ fout.val = <<"d", "s", "k", "u", "l", "l", ":", "7">>

\* s without the code points of a set
Without(s, cs) == SelectSeq(s, LAMBDA c : c \notin cs)

\* s without its skull-and-crossbones glyphs, each with the variation selector
\* that follows it
RECURSIVE WithoutCrossbones(_)
WithoutCrossbones(s) ==
    IF s = <<>> THEN <<>>
    ELSE IF s[1] # Crossbones THEN <<s[1]>> \o WithoutCrossbones(Tail(s))
    ELSE IF Len(s) >= 2 /\ s[2] = VS16 THEN WithoutCrossbones(Tail(Tail(s)))
    ELSE WithoutCrossbones(Tail(s))

\* the name embedded in a tag: what stands between its first colon and its
\* second colon or its end; a tag without colon has none
TagHasSkullName(tag) ==
    LET colons == {i \in 1..Len(tag) : tag[i] = ":"}
        first == CHOOSE i \in colons : \A j \in colons : i <= j
        later == colons \ {first}
        stop == IF later = {} THEN Len(tag) + 1
                ELSE CHOOSE i \in later : \A j \in later : i <= j
        name == SubSeq(tag, first + 1, stop - 1)
        lower == [i \in 1..Len(name) |-> LowerRune(name[i])]
    IN  /\ colons # {}
        /\ HasWord(lower, SkullWord)
        /\ ~HasWord(lower, <<"j", "o", "l", "l", "y">> \o SkullWord)

\* s without its tags of skull name: a tag runs from a '<' to the next '>'
RECURSIVE WithoutSkullTags(_)
WithoutSkullTags(s) ==
    LET opens == {i \in 1..Len(s) : s[i] = "<"}
        a == CHOOSE i \in opens : \A j \in opens : i <= j
        closes == {i \in 1..Len(s) : i > a /\ s[i] = ">"}
        b == CHOOSE i \in closes : \A j \in closes : i <= j
        tag == SubSeq(s, a, b)
    IN  IF opens = {} \/ closes = {} THEN s
        ELSE SubSeq(s, 1, a - 1)
             \o (IF TagHasSkullName(tag) THEN <<>> ELSE tag)
             \o WithoutSkullTags(SubSeq(s, b + 1, Len(s)))

\* C27: IsSkullOnlyMessage is false when nothing but spaces, tabs and newlines
\* is in the text; otherwise it is true exactly when nothing is left after the
\* removal of the whitespace, of the unicode skull glyphs and of the tags whose
\* embedded name contains "skull" and not "jollyskull" in any case, other tags,
\* an unclosed '<' and all other text being kept.
C27_IsSkullOnlyMessage ==
    (fin.fn = "IsSkullOnlyMessage" /\ fout.done) =>
        LET bare == Without(fin.content, {" ", "\t", "\n"})
            rest == WithoutSkullTags(WithoutCrossbones(Without(bare, {Skull})))
        IN  /\ fout.val = (bare # <<>> /\ rest = <<>>)
            /\ fin.content \in { <<>>, <<" ">>, JollySkullTag, <<Skull, "l", "o", "l">>,
                                 <<Skull, "<", ":", "o", "k", ":", "7", ">">> }
                  => ~fout.val

\* a skull tag followed by an unclosed '<'
C27_Witness ==
    /\ fin.fn = "IsSkullOnlyMessage"
    /\ fout.done
    /\ fin.content = CustomSkullTag \o <<"<">>
    /\ ~fout.val

\* the IDs listed in a comma-separated value: each stretch between commas,
\* from its first to its last code point that is no white space
ListedIDs(s) ==
    LET stretches == { <<a, b>> \in (1..Len(s) + 1) \X (0..Len(s)) :
                         /\ a = 1 \/ s[a - 1] = ","
                         /\ b = Len(s) \/ s[b + 1] = ","
                         /\ \A i \in a..b : s[i] # "," }
        core(a, b) == { <<i, j>> \in (a..b) \X (a..b) :
                          /\ i <= j
                          /\ s[i] \notin WhiteSpace /\ s[j] \notin WhiteSpace
                          /\ \A k \in a..b : (k < i \/ k > j) => s[k] \in WhiteSpace }
    IN  UNION { {SubSeq(s, c[1], c[2]) : c \in core(st[1], st[2])} : st \in stretches }

\* C29: Load fails exactly when the token, the guild ID or the substitute
\* identifier is empty or no non-blank target user ID is listed, the list being
\* the plural variable when it is set and the singular one otherwise; a
\* configuration it returns has the listed IDs, trimmed, as its non-empty
\* target set, a non-empty substitute identifier, and the given channel name
\* or "jollyposting".
C29_Load ==
    (fin.fn = "Load" /\ fout.done) =>
        LET env == fin.env
            listed == ListedIDs(IF env.DISCORD_TARGET_USER_IDS # <<>>
                                THEN env.DISCORD_TARGET_USER_IDS
                                ELSE env.DISCORD_TARGET_USER_ID)
            cfg == fout.val.cfg
        IN  /\ fout.val.err = ( \/ env.DISCORD_TOKEN = <<>>
                                \/ env.DISCORD_GUILD_ID = <<>>
                                \/ env.DISCORD_JOLLYSKULL_ID = <<>>
                                \/ listed = {} )
            /\ ~fout.val.err =>
                  /\ cfg.TargetUserIDSet = listed
                  /\ cfg.TargetUserIDSet # {}
                  /\ {cfg.TargetUserIDs[i] : i \in 1..Len(cfg.TargetUserIDs)} = listed
                  /\ cfg.JollySkullID = env.DISCORD_JOLLYSKULL_ID
                  /\ cfg.JollySkullID # <<>>
                  /\ cfg.Token = env.DISCORD_TOKEN
                  /\ cfg.GuildID = env.DISCORD_GUILD_ID
                  /\ cfg.ChannelName
                        = IF env.DISCORD_CHANNEL_NAME = <<>>
                          THEN <<"j", "o", "l", "l", "y", "p", "o", "s", "t", "i", "n", "g">>
                          ELSE env.DISCORD_CHANNEL_NAME

\* the plural variable lists " 1" and a blank entry, the singular one is set
\* too and the channel name is not
C29_Witness ==
    /\ fin.fn = "Load"
    /\ fout.done
    /\ fin.env.DISCORD_TARGET_USER_IDS = <<" ", "1", ",">>
    /\ fin.env.DISCORD_TARGET_USER_ID = <<"3">>
    /\ fin.env.DISCORD_CHANNEL_NAME = <<>>
    /\ ~fout.val.err
    /\ fout.val.cfg.TargetUserIDSet = {<<"1">>}

\* C30: every message fetch of the backfill asks for 100 messages before
\* beforeID, which is empty at the first fetch; the step that finishes the
\* last message of a page sets beforeID to the ID of that page's last message,
\* and no other step changes it, so a page cut short by the cutoff leaves it
\* where it was.
C30_BeforeID ==
    [][\A d \in FirstReady :
          (bf[d].pc # "none" /\ bf'[d].pc # "none") =>
             /\ bf'[d].fetches = bf[d].fetches + 1 =>
                   /\ Len(bf'[d].mcalls) = Len(bf[d].mcalls) + 1
                   /\ bf'[d].mcalls[Len(bf'[d].mcalls)].Limit = 100
                   /\ bf'[d].mcalls[Len(bf'[d].mcalls)].Before = bf[d].beforeID
                   /\ bf[d].fetches = 0 => bf[d].beforeID = ""
             /\ bf'[d].fetches = bf[d].fetches => bf'[d].mcalls = bf[d].mcalls
             /\ IF bf[d].pc = "msg" /\ bf'[d].pc = "loop"
                THEN bf'[d].beforeID = bf[d].page[Len(bf[d].page)].ID
                ELSE bf'[d].beforeID = bf[d].beforeID ]_vars

\* the page <<h4, h2>> was processed to its end, the second fetch asked for
\* the messages before h2 and its page was cut short by the cutoff
C30_Witness ==
    \E d \in FirstReady :
        /\ bf[d].pc = "done"
        /\ bf[d].log = "reached messages before cutoff"
        /\ Len(bf[d].mcalls) = 2
        /\ bf[d].mcalls[1] = ChannelMessagesCall(channelID, "")
        /\ bf[d].mcalls[2].Before = "h2"
        /\ bf[d].beforeID = "h2"
        /\ bf[d].processed >= 3

\* C24: the step in which a live handler runs its filter changes none of
\* channelID, ready and the cancel token and issues no Session call; it reads
\* the two fields while no Initialize is between its Lock and Unlock, so the
\* pair it read is the initial one or one that an Initialize wrote as a whole,
\* and its verdict is the filter's value on that pair and the event.
C24_FiltersPure ==
    [][ (lv.pc = "idle" /\ lv'.pc # "idle") =>
           /\ channelID' = channelID
           /\ ready' = ready
           /\ cancel' = cancel
           /\ cancelled' = cancelled
           /\ lv'.calls = <<>>
           /\ \A r \in ReadyTasks : rd[r].pc \notin {"w_ch", "w_ready"}
           /\ lv'.snap = [ready |-> ready, channelID |-> channelID]
           /\ \/ lv'.snap = [ready |-> FALSE, channelID |-> ""]
              \/ lv'.snap.ready /\ lv'.snap.channelID \in ResolvedChannelIDs
           /\ lv'.ok = IF lv'.kind = "reaction"
                       THEN ShouldProcessReaction(lv'.snap.ready, lv'.snap.channelID, lv'.ev)
                       ELSE ShouldDeleteMessage(lv'.snap.ready, lv'.snap.channelID, lv'.ev) ]_vars

\* a filter has passed an event on the pair the first Initialize wrote while a
\* second Initialize stands before its Lock
C24_Witness ==
    /\ lv.pc \in {"replace", "delete"}
    /\ lv.ok
    /\ lv.calls = <<>>
    /\ lv.snap.ready
    /\ \E r \in ReadyTasks : r > 1 /\ rd[r].pc = "lock" /\ rd[r].found # lv.snap.channelID

\* the live handler has passed the race's event through its filter and has
\* returned from ReplaceReaction
LiveFinished == lv.pc = "done" /\ lv.kind = "reaction" /\ lv.ok

\* the backfill is not at work on a message: it has not fetched it yet, is
\* through with it, or has returned
BackfillFinished(d) == bf[d].pc # "msg"

\* C23: whenever the live handler has returned from ReplaceReaction for the
\* user's skull on the message and the backfill is not at work on the message,
\* the message carries the substitute and not the user's skull, whatever the
\* interleaving of the two was.
C23_BenignRace ==
    (LiveFinished /\ \A d \in FirstReady : BackfillFinished(d)) =>
        /\ fin.substitute
        /\ \A i \in 1..Len(fin.reactors["m1"]) : fin.reactors["m1"][i] # "u1"

\* both have finished, and both went through ReplaceReaction for the same
\* message, user and emoji: the backfill removed the reaction, the live
\* handler's remove found it gone and the backfill's add placed the substitute
C23_Witness ==
    \E d \in FirstReady :
        /\ LiveFinished
        /\ bf[d].pc \in {"loop", "done"}
        /\ bf[d].processed = 1
        /\ bf[d].replaced = 1
        /\ lv.rr.rmErr = "err"
        /\ lv.ev = RaceEvent
        /\ Len(lv.calls) = 1
        /\ fin.substitute

\* C22: no reachable state is a deadlock.  The lock is held only by an OnReady
\* task that is between Lock and Unlock and can take its next step; an OnReady
\* task that cannot step stands before Lock while another task holds the lock;
\* a Shutdown that has read the cancel token, a live handler past its filter
\* and a started backfill goroutine can always step, whatever the others are
\* doing and whichever message they work on: none of them waits for a lock or
\* for another task.
C22_NoDeadlock ==
    LET OnReadyCanStep(r) ==
            ENABLED ( \/ InitLock(r) \/ InitWriteChannel(r) \/ InitWriteReady(r)
                      \/ OnReadyNewContext(r) \/ OnReadyStoreCancel(r) \/ OnReadyGo(r) )
        LiveCanStep ==
            ENABLED (RaceLiveRemove \/ RaceLiveAdd \/ LiveDelete \/ LiveReturn)
        DriverCanStep(d) ==
            ENABLED ( \/ DriverCancelled(d) \/ RaceDriverFetch(d)
                      \/ RaceDriverFetchReactors(d) \/ RaceDriverRemove(d)
                      \/ RaceDriverAdd(d) \/ DriverMessageDone(d) )
    IN  /\ mu # 0 => /\ rd[mu].pc \in {"w_ch", "w_ready", "c_write"}
                     /\ OnReadyCanStep(mu)
        /\ \A r \in FirstReady :
              (rd[r].pc \notin {"idle", "failed", "done"} /\ ~OnReadyCanStep(r))
                 => rd[r].pc \in {"lock", "c_lock"} /\ mu \notin {0, r}
        /\ sd.pc = "cancel" => ENABLED ShutdownCancel
        /\ lv.pc # "idle" => LiveCanStep
        /\ \A d \in FirstReady : bf[d].pc \notin {"none", "done"} => DriverCanStep(d)

\* the live handler and the backfill are both inside ReplaceReaction for the
\* same message, user and emoji, and Shutdown has read the cancel token
C22_Witness ==
    \E d \in FirstReady :
        /\ lv.pc = "replace"
        /\ bf[d].pc = "msg"
        /\ bf[d].pm.pc = "replace"
        /\ bf[d].pm.rr.MessageID = lv.rr.MessageID
        /\ bf[d].pm.rr.UserID = lv.rr.UserID
        /\ bf[d].pm.rr.Emoji = lv.rr.Emoji
        /\ sd.pc = "cancel"

RECURSIVE SumCounts(_)
SumCounts(l) == IF l = <<>> THEN 0 ELSE l[Len(l)].count + SumCounts(SubSeq(l, 1, Len(l) - 1))

\* C31: in every state of the backfill, processed is the number of
\* ProcessMessageReactions calls that have returned and replaced the sum of
\* their results, each result being the number of the call's ReplaceReaction
\* calls that returned true; no message older than the cutoff is among them,
\* and no step lowers either counter.
C31_ProgressAccounting ==
    [][\A d \in FirstReady :
          bf'[d].pc # "none" =>
             /\ bf'[d].processed = Len(bf'[d].returned)
             /\ bf'[d].replaced = SumCounts(bf'[d].returned)
             /\ \A k \in 1..Len(bf'[d].returned) :
                   /\ bf'[d].returned[k].count
                         = Cardinality({j \in 1..Len(bf'[d].returned[k].rrs) :
                                           bf'[d].returned[k].rrs[j].result})
                   /\ bf'[d].returned[k].msg.Timestamp >= HistoricalCutoff
             /\ bf[d].pc # "none" =>
                   /\ bf'[d].processed >= bf[d].processed
                   /\ bf'[d].replaced >= bf[d].replaced ]_vars

\* two pages: h4 without reactions and h2 with a replaced skull, then h1 with
\* a replaced skull and the stop at h3, which is older than the cutoff
C31_Witness ==
    \E d \in FirstReady :
        /\ bf[d].pc = "done"
        /\ bf[d].log = "reached messages before cutoff"
        /\ bf[d].fetches = 2
        /\ bf[d].fetched = 4
        /\ bf[d].processed = 3
        /\ bf[d].replaced = 2

\* C32: when ProcessMessageReactions returns to the backfill it has fetched
\* the reactors of every skull-class summary of the message and called
\* ReplaceReaction for every target user each fetch returned, whichever of
\* those calls returned false; the backfill then goes on as after any other
\* message: to the next message of the page, with a fresh
\* ProcessMessageReactions, to the cutoff stop if that message is older than
\* the cutoff, or to the next fetch.
C32_FailureSkipped ==
    [][\A d \in FirstReady :
          (bf[d].pc = "msg" /\ bf[d].pm.pc = "ret" /\ bf'[d] # bf[d]) =>
             LET p == bf[d].pm
                 skulls == SelectSeq(p.msg.Reactions, IsSkullEmoji)
                 more == bf[d].i < Len(bf[d].page)
                 old == more /\ bf[d].page[bf[d].i + 1].Timestamp < HistoricalCutoff
             IN  /\ Len(p.finds) = Len(skulls)
                 /\ \A k \in 1..Len(skulls) : p.finds[k].Emoji = skulls[k]
                 /\ [k \in 1..Len(p.rrs) |->
                        [Emoji |-> p.rrs[k].Emoji, UserID |-> p.rrs[k].UserID]]
                       = FoundPairs(p.finds)
                 /\ (more /\ ~old) =>
                       /\ bf'[d].pc = "msg"
                       /\ bf'[d].i = bf[d].i + 1
                       /\ bf'[d].pm.msg = bf[d].page[bf[d].i + 1]
                       /\ bf'[d].pm.rrs = <<>>
                       /\ bf'[d].pm.count = 0
                 /\ old => bf'[d].pc = "done" /\ bf'[d].log = "reached messages before cutoff"
                 /\ ~more => bf'[d].pc = "loop" ]_vars

\* on h2 the replacement for the first target user failed and the one for the
\* second succeeded; on h1, fetched with the next page, the replacement for
\* the first skull emoji failed and the one for the second succeeded
C32_Witness ==
    \E d \in FirstReady :
        /\ bf[d].pc = "done"
        /\ Len(bf[d].returned) = 3
        /\ bf[d].returned[2].msg = H2
        /\ Len(bf[d].returned[2].rrs) = 2
        /\ ~bf[d].returned[2].rrs[1].result
        /\ bf[d].returned[2].rrs[2].result
        /\ bf[d].returned[2].rrs[1].UserID # bf[d].returned[2].rrs[2].UserID
        /\ bf[d].returned[3].msg = H1
        /\ Len(bf[d].returned[3].rrs) = 2
        /\ ~bf[d].returned[3].rrs[1].result
        /\ bf[d].returned[3].rrs[2].result
        /\ bf[d].returned[3].rrs[1].Emoji # bf[d].returned[3].rrs[2].Emoji

\* the string the platform's API takes for an emoji descriptor
APIString(e) == IF e.ID = <<>> THEN e.Name ELSE e.Name \o <<":">> \o e.ID

\* C33: in the Session calls of one ProcessMessageReactions invocation the
\* reactor-list fetches name, in order, the API strings of the message's
\* skull-class summaries, and every RemoveReaction call names the same
\* string as the reactor-list fetch that precedes it, for standard and for
\* custom emoji.
C33_SameEmojiString ==
    (fin.fn = "ProcessMessageReactions" /\ fout.pc # "none") =>
        LET skulls == SelectSeq(fin.msg.Reactions, IsSkullEmoji)
            fetches == SelectSeq(fout.calls, LAMBDA c : c.op = "MessageReactions")
            fetchBefore(k) ==
                CHOOSE j \in 1..k :
                    /\ fout.calls[j].op = "MessageReactions"
                    /\ \A i \in (j + 1)..k : fout.calls[i].op # "MessageReactions"
        IN  /\ Len(fetches) <= Len(skulls)
            /\ \A k \in 1..Len(fetches) : fetches[k].Emoji = APIString(skulls[k])
            /\ \A k \in 1..Len(fout.calls) :
                  fout.calls[k].op = "RemoveReaction" =>
                      /\ \E j \in 1..k : fout.calls[j].op = "MessageReactions"
                      /\ fout.calls[k].Emoji = fout.calls[fetchBefore(k)].Emoji

\* a standard and a custom skull summary, each with its fetch and a remove
\* for each of the two target users
C33_Witness ==
    /\ fin.fn = "ProcessMessageReactions"
    /\ fout.pc = "ret"
    /\ fin.msg.Reactions = <<UnicodeSkull, CustomSkull>>
    /\ Len(SelectSeq(fout.calls, LAMBDA c : c.op = "RemoveReaction")) = 4
    /\ \E k \in 1..Len(fout.calls) :
          /\ fout.calls[k].op = "RemoveReaction"
          /\ fout.calls[k].Emoji = <<"d", "S", "k", "u", "l", "l", ":", "7">>

\* C34: a pass of the backfill loop that takes the processed count to or past
\* a multiple of 500 emits a progress log, whatever the lengths of the pages.
C34_ProgressEvery500 ==
    [][ (fin.fn = "ProcessHistoricalMessages"
            /\ fout'.processed \div 500 > fout.processed \div 500)
           => Len(fout'.progress) > Len(fout.progress) ]_vars

\* C35: a message-create handler whose filter said no makes no Session call;
\* one whose filter said yes makes one call, the delete of the event's
\* message in the event's channel, and returns after it whether or not it
\* failed; it makes no remove or add reaction call.
C35_OnMessageCreate ==
    lv.kind = "message" =>
        /\ lv.ok = ShouldDeleteMessage(lv.snap.ready, lv.snap.channelID, lv.ev)
        /\ ~lv.ok => lv.pc = "done" /\ lv.calls = <<>>
        /\ lv.ok =>
              \/ lv.pc = "delete" /\ lv.calls = <<>>
              \/ /\ lv.pc = "done"
                 /\ lv.delErr \in {"nil", "err"}
                 /\ Len(lv.calls) = 1
                 /\ lv.calls[1].op = "DeleteMessage"
                 /\ lv.calls[1].ChannelID = lv.ev.ChannelID
                 /\ lv.calls[1].MessageID = lv.ev.ID
        /\ \A k \in 1..Len(lv.calls) : lv.calls[k].op \notin {"RemoveReaction", "AddReaction"}

\* the delete of a skull-only message has failed and the handler is done
C35_Witness ==
    /\ lv.kind = "message"
    /\ lv.ok
    /\ lv.pc = "done"
    /\ lv.delErr = "err"
    /\ Len(lv.calls) = 1

\* C40: a reaction-add handler whose filter said no makes no Session call; one
\* whose filter said yes makes at most one RemoveReaction, for the event's
\* message, user and emoji, then at most one AddReaction, and nothing else: no
\* reactor-list fetch and no message fetch.
C40_OneEventOneReplace ==
    lv.kind = "reaction" =>
        LET removes == SelectSeq(lv.calls, LAMBDA c : c.op = "RemoveReaction")
            adds == SelectSeq(lv.calls, LAMBDA c : c.op = "AddReaction")
        IN  /\ lv.ok = ShouldProcessReaction(lv.snap.ready, lv.snap.channelID, lv.ev)
            /\ ~lv.ok => lv.pc = "done" /\ lv.calls = <<>>
            /\ Len(removes) <= 1
            /\ Len(adds) <= 1
            /\ Len(lv.calls) = Len(removes) + Len(adds)
            /\ \A k \in 1..Len(removes) :
                  /\ removes[k].MessageID = lv.ev.MessageID
                  /\ removes[k].UserID = lv.ev.UserID
                  /\ removes[k].Emoji = APIString(lv.ev.Emoji)
            /\ adds # <<>> => /\ Len(lv.calls) = 2
                              /\ lv.calls[1].op = "RemoveReaction"
                              /\ adds[1].MessageID = lv.ev.MessageID
            /\ lv.pc = "done" /\ lv.ok => Len(removes) = 1

\* the remove failed: one call and the handler is done
C40_Witness ==
    /\ lv.kind = "reaction"
    /\ lv.ok
    /\ lv.pc = "done"
    /\ lv.rr.rmErr = "err"
    /\ Len(lv.calls) = 1
    /\ lv.calls[1].op = "RemoveReaction"

\* the values of DISCORD_JOLLYSKULL_ID the bot can run with: the one of Config
\* and a custom emoji whose name holds "skull" but not "jollyskull"; neither
\* ReplaceReaction's remove step nor IsSkullEmoji reads the value
LoadableSubstitutes == {Config.JollySkullID, GetEmojiAPIString(CustomSkull)}

\* the remove names a target user, the API string of a skull-class emoji and
\* a channel Initialize resolved
RemoveOfTarget(c) ==
    /\ c.UserID \in Config.TargetUserIDSet
    /\ \E e \in {UnicodeSkull, CustomSkull, JollySkull, Thumbs} :
          IsSkullEmoji(e) /\ c.Emoji = GetEmojiAPIString(e)
    /\ c.ChannelID \in {"c2", "c3"}

C39_ShutdownCancelsDrivers ==
    [][ (sd.pc = "cancel" /\ sd'.pc = "idle" /\ \E r \in ReadyTasks : rd[r].pc # "idle")
            => \A d \in ReadyTasks :
                   bf'[d].pc \in {"started", "loop", "msg"} => bf'[d].ctx \in cancelled' ]_vars

\* the messages passed to ProcessMessageReactions so far, in the order passed
PassedMessages(t) == [k \in 1..Len(t.returned) |-> t.returned[k].msg]

\* the messages of a history at or after the cutoff, in the history's order
AtOrAfterCutoff(h) == SelectSeq(h, LAMBDA m : m.Timestamp >= HistoricalCutoff)

\* C37: with a Session that serves the channel's history newest first in
\* disjoint pages, honours beforeID and does not fail, the messages passed to
\* ProcessMessageReactions are at every moment the first ones of the history's
\* messages at or after the cutoff, each once and in the order returned, never
\* one older than the cutoff; when the driver has stopped at the cutoff or at
\* the end of the history they are all of them.
C37_BackfillComplete ==
    \A d \in FirstReady :
        (fin.session = "history" /\ bf[d].pc # "none") =>
            LET passed == PassedMessages(bf[d])
                due == AtOrAfterCutoff(fin.history)
            IN  /\ Len(passed) <= Len(due)
                /\ passed = SubSeq(due, 1, Len(passed))
                /\ (bf[d].pc = "done" /\ bf[d].log \in {CutoffLog, CompleteLog})
                       => passed = due
                /\ bf[d].processed = Len(passed)

\* a history of three messages up to the cutoff day and an older one, served
\* in more than one page, walked down to the cutoff
C37_Witness ==
    /\ fin.session = "history"
    /\ fin.history = <<H4, H6, H2, H3>>
    /\ bf[1].pc = "done"
    /\ bf[1].log = CutoffLog
    /\ bf[1].fetches >= 2
    /\ PassedMessages(bf[1]) = <<H4, H6, H2>>

\* C38: against a finite history served newest first by a Session that
\* honours beforeID, a driver that was started reaches its end, whether the
\* cutoff, the end of the history or cancellation, and a driver that has
\* ended makes no further Session call; against a Session that returns the
\* same non-empty page of messages newer than the cutoff at every call the
\* driver ends by cancellation only.
C38_BackfillTerminates ==
    /\ \A d \in FirstReady :
          (fin.session = "history" /\ bf[d].pc # "none") ~> (bf[d].pc = "done")
    /\ [][\A d \in FirstReady : bf[d].pc = "done" => bf'[d] = bf[d]]_vars
    /\ [](\A d \in FirstReady :
            (/\ fin.session = "mock"
             /\ AtOrAfterCutoff(fin.history) = fin.history
             /\ bf[d].pc = "done") => bf[d].log = CancelledLog)

\* a history of three messages, none older than the cutoff, fetched one
\* message a page, and the empty page that ends it
C38_Witness ==
    /\ fin.session = "history"
    /\ fin.history = <<H4, H6, H2>>
    /\ bf[1].pc = "done"
    /\ bf[1].log = CompleteLog
    /\ bf[1].fetches = 4

====
